---- MODULE Spec2Model ----
(***************************************************************************)
(* The CLI entity factories of robottelo (robottelo/cli/factory.py).       *)
(*                                                                         *)
(* One behaviour of Spec is one call make_X(options): validation of the    *)
(* required options, preparation and upload of a file-backed attribute,    *)
(* overlay of the caller's options on the default args dictionary, the     *)
(* backend create call, the fixed sleep, the return-code check, the        *)
(* normalisation of stdout and the merge of the result into args.          *)
(*                                                                         *)
(* Python values are strings: NoneV is None, "" the empty string, "True",  *)
(* "False" and "1" the literals True, False and 1.  A value that starts    *)
(* with "~" stands for the value a generator returns (generate_name(),     *)
(* random.choice(...), mkstemp()): a fresh value no caller supplies.       *)
(* A dictionary is a function from its keys to values.                     *)
(*                                                                         *)
(* The model layer (robottelo/orm.py) and the dependency graph script      *)
(* (scripts/graph_entities.py) have specifications of their own, over      *)
(* variables of their own: SpecField (get_value of one field), SpecPath    *)
(* (Entity.path), SpecRel (a one-to-many field), SpecValues                *)
(* (Entity.get_values) and SpecGraph (one run of the script).  In each     *)
(* specification the variables of the others keep their idle values.       *)
(***************************************************************************)
EXTENDS Integers, Sequences, FiniteSets, TLC

VARIABLES
    fn,           \* the factory function that is called
    options,      \* the options argument: [none, d]; none = TRUE is None
    options0,     \* the options argument as the caller passed it
    pc,           \* position of the call
    args,         \* the local dictionary args
    key_filename, \* the local file handed to ssh.upload_file
    tmpfile,      \* the path mkstemp() returned, NoneV before/without it
    content,      \* the text written to the temporary file
    upload_ok,    \* whether the file transfer succeeded
    in_ctx,       \* inside "with default_url_on_new_port(...)"
    log,          \* the calls made to the collaborators, in order
    result,       \* the object cli_object.create(args) returned
    new_obj,      \* the value create_object returned
    err,          \* the exception the call raised
    field,        \* orm: the field declaration get_value() is called on
    value,        \* orm: what the last get_value() returned or raised
    calls,        \* orm: how many times get_value() was called
    server_url,   \* orm: what helpers.get_server_url() returns
    entity,       \* orm: the entity instance path() is called on
    which,        \* orm: the selector of the last call of path()
    path_result,  \* orm: what the last call of path() returned or raised
    path_calls,   \* orm: how many times path() was called
    rel_field,    \* orm: the declaration of a one-to-many field
    rel_value,    \* orm: the object assigned to the field
    rel_held,     \* orm: what the field holds
    rel_err,      \* orm: the exception the assignment raised
    rel_synth,    \* orm: what get_value() of the field returned
    ent_defaults, \* orm: the defaults the fields of an entity class declare
    ent_data,     \* orm: the field values an entity instance was given
    values,       \* orm: what get_values() returned
    entities_,    \* graph: the declared entity classes, by name
    graph_pc,     \* graph: position of the script
    graph_entity, \* graph: the entity the outer loop is at
    entities_seen, \* graph: the entities the outer loop is done with
    fields_seen,  \* graph: the fields the inner loop is done with
    printed,      \* graph: the lines printed
    ui_fn,        \* ui: the UI factory function that is called
    kwargs,       \* ui: the keyword arguments the caller overrides
    org,          \* ui: the org argument
    loc,          \* ui: the loc argument
    force_context, \* ui: the force_context argument
    current_text, \* ui: the text of the menu's current context
    create_args,  \* ui: the factory's dictionary create_args
    ui_pc,        \* ui: position of the call
    ui_log,       \* ui: the calls made to the browser session, in order
    ui_ret,       \* ui: what the factory returned
    par_call,     \* parallel: the locals of each of the calls
    local_files,  \* parallel: the files of the local file system
    remote_files, \* parallel: the files under /tmp of the server
    tunnels       \* parallel: the ports the open contexts forward

(* the variables of one call of a CLI factory *)
cli_vars == <<fn, options, options0, pc, args, key_filename, tmpfile,
              content, upload_ok, in_ctx, log, result, new_obj, err>>

(* the variables of one field declaration and its get_value() calls *)
field_vars == <<field, value, calls>>

(* the variables of the model layer (robottelo/orm.py) *)
(* the variables of one entity instance and its path() calls *)
path_vars == <<server_url, entity, which, path_result, path_calls>>

(* the variables of one one-to-many field of an entity instance *)
rel_vars == <<rel_field, rel_value, rel_held, rel_err, rel_synth>>

(* the variables of one entity instance and its get_values() call *)
values_vars == <<ent_defaults, ent_data, values>>

orm_vars == <<field_vars, path_vars, rel_vars, values_vars>>

(* the variables of one run of scripts/graph_entities.py *)
graph_vars == <<entities_, graph_pc, graph_entity, entities_seen,
                fields_seen, printed>>

(* the variables of one call of a UI factory *)
ui_vars == <<ui_fn, kwargs, org, loc, force_context, current_text,
             create_args, ui_pc, ui_log, ui_ret>>

(* the variables of the CLI factory calls a test driver makes in parallel *)
par_vars == <<par_call, local_files, remote_files, tunnels>>

vars == <<cli_vars, orm_vars, graph_vars, ui_vars, par_vars>>

(* ------------------------------ bounds --------------------------------- *)

(* longest stderr text, in characters *)
MaxStderrLen == 2

(* longest list the backend returns as stdout *)
MaxListLen == 2

(* ------------------------------ values --------------------------------- *)

NoneV == "<None>"

(* Python truth value of a modelled value: bool(v) *)
Truthy(v) == v \notin {NoneV, "", "False", "0"}

EmptyDict == [k \in {} |-> NoneV]

(* d.get(k, None) and d.get(k, default) *)
Get(d, k) == IF k \in DOMAIN d THEN d[k] ELSE NoneV

GetDefault(d, k, default) == IF k \in DOMAIN d THEN d[k] ELSE default

(* d.pop(k): the dictionary without k *)
Pop(d, k) == [j \in DOMAIN d \ {k} |-> d[j]]

(* d[k] = v *)
SetItem(d, k, v) == (k :> v) @@ d

Range(s) == {s[i] : i \in DOMAIN s}

(* sep.join(seq) for a sequence of strings *)
RECURSIVE Join(_, _)
Join(sep, seq) ==
    IF seq = <<>> THEN ""
    ELSE IF Len(seq) = 1 THEN seq[1]
    ELSE seq[1] \o sep \o Join(sep, Tail(seq))

(* "/tmp/%s" % generate_name(): the remote path of a file-backed attribute *)
RemotePath == "/tmp/~generate_name"

(* the path mkstemp(text=True) returns *)
TempPath == "~mkstemp"

(* generate_name() / generate_name(minimum=20, maximum=50) as file content *)
GeneratedName == "~generate_name"

(* the URL default_url_on_new_port yields *)
NewPortUrl == "~default_url_on_new_port"

ORG_KEYS == <<"organization", "organization-id", "organization-label">>

CONTENT_VIEW_KEYS == <<"content-view", "content-view-id">>

LIFECYCLE_KEYS == <<"lifecycle-environment", "lifecycle-environment-id">>

(* --------------------- the default args dictionaries ------------------- *)

(* make_activation_key: the default args dictionary, lines 136-148 *)
make_activation_key_args ==
    ("name" :> "~generate_name")
    @@ ("unlimited-content-hosts" :> "True")
    @@ [k \in {"content-view", "content-view-id", "description",
                "lifecycle-environment", "lifecycle-environment-id",
                "max-content-hosts", "organization", "organization-id",
                "organization-label"} |-> NoneV]

(* make_architecture: the default args dictionary, lines 170-173 *)
make_architecture_args ==
    ("name" :> "~generate_name")
    @@ [k \in {"operatingsystem-ids"} |-> NoneV]

(* make_content_view: the default args dictionary, lines 208-216 *)
make_content_view_args ==
    ("name" :> "~generate_string")
    @@ ("composite" :> "False")
    @@ [k \in {"organization-id", "component-ids", "label", "description",
                "repository-ids"} |-> NoneV]

(* make_gpg_key: the default args dictionary, lines 254-258 *)
make_gpg_key_args ==
    ("name" :> "~generate_name")
    @@ ("key" :> RemotePath)
    @@ [k \in {"organization-id"} |-> NoneV]

(* make_model: the default args dictionary, lines 286-291 *)
make_model_args ==
    ("name" :> "~generate_name")
    @@ [k \in {"info", "vendor-class", "hardware-model"} |-> NoneV]

(* make_partition_table: the default args dictionary, lines 334-338 *)
make_partition_table_args ==
    ("name" :> "~generate_name")
    @@ ("file" :> RemotePath)
    @@ ("os-family" :> "~random.choice")

(* make_product: the default args dictionary, lines 370-377 *)
make_product_args ==
    ("name" :> "~generate_string")
    @@ ("label" :> "~generate_string")
    @@ ("description" :> "~generate_string")
    @@ [k \in {"organization-id", "gpg-key-id", "sync-plan-id"} |-> NoneV]

(* make_proxy: the default args dictionary, lines 397-399 *)
make_proxy_args ==
    ("name" :> "~generate_name")

(* make_repository: the default args dictionary, lines 442-455 *)
make_repository_args ==
    ("name" :> "~generate_string")
    @@ ("content-type" :> "yum")
    @@ ("publish-via-http" :> "true")
    @@ ("url" :> "http://omaciel.fedorapeople.org/fakerepo01/")
    @@ [k \in {"label", "product", "product-id", "gpg-key", "gpg-key-id",
                "organization", "organization-id", "organization-label"} |-> NoneV]

(* make_subnet: the default args dictionary, lines 488-502 *)
make_subnet_args ==
    ("name" :> "~generate_name")
    @@ ("network" :> "~generate_ipaddr")
    @@ ("mask" :> "255.255.255.0")
    @@ [k \in {"gateway", "dns-primary", "dns-secondary", "from", "to", "vlanid",
                "domain-ids", "dhcp-id", "tftp-id", "dns-id"} |-> NoneV]

(* make_sync_plan: the default args dictionary, lines 535-541 *)
make_sync_plan_args ==
    ("name" :> "~generate_string")
    @@ ("description" :> "~generate_string")
    @@ ("sync-date" :> "~now")
    @@ ("interval" :> "~random.choice")
    @@ [k \in {"organization-id"} |-> NoneV]

(* make_content_host: the default args dictionary, lines 597-614 *)
make_content_host_args ==
    ("name" :> "~generate_string")
    @@ ("description" :> "~generate_string")
    @@ [k \in {"organization", "organization-id", "organization-label",
                "content-view", "content-view-id", "environment",
                "environment-id", "guest-ids", "host-collection",
                "host-collection-id", "last-checking", "location", "release-ver",
                "service-level"} |-> NoneV]

(* make_host: the default args dictionary, lines 716-765 *)
make_host_args ==
    ("ip" :> "~generate_ipaddr")
    @@ ("mac" :> "~generate_mac")
    @@ ("name" :> "~generate_string")
    @@ ("root-password" :> "~generate_string")
    @@ [k \in {"architecture", "architecture-id", "ask-root-password", "build",
                "compute-attributes", "compute-profile", "compute-profile-id",
                "compute-resource", "compute-resource-id", "domain", "domain-id",
                "enabled", "environment", "environment-id", "hostgroup",
                "hostgroup-id", "image-id", "interface", "location",
                "location-id", "managed", "medium", "medium-id", "model",
                "model-id", "operatingsystem-id", "organization",
                "organization-id", "owner-id", "parameters", "partition-table-id",
                "progress-report-id", "provision-method", "ptable", "ptable-id",
                "puppet-ca-proxy-id", "puppet-proxy-id", "puppetclass-ids",
                "realm", "realm-id", "sp-subnet-id", "subnet", "subnet-id",
                "volume"} |-> NoneV]

(* make_host_collection: the default args dictionary, lines 798-804 *)
make_host_collection_args ==
    ("name" :> "~generate_string")
    @@ [k \in {"description", "max-content-hosts", "organization-id",
                "system-ids"} |-> NoneV]

(* make_user: the default args dictionary, lines 832-840 *)
make_user_args ==
    ("login" :> "~login")
    @@ ("firstname" :> "~generate_name")
    @@ ("lastname" :> "~generate_name")
    @@ ("mail" :> "~login@example.com")
    @@ ("password" :> "~generate_name")
    @@ ("auth-source-id" :> "1")
    @@ [k \in {"admin"} |-> NoneV]

(* make_compute_resource: the default args dictionary, lines 871-882 *)
make_compute_resource_args ==
    ("name" :> "~generate_name")
    @@ [k \in {"provider", "url", "description", "user", "password", "uuid",
                "region", "tenant", "server"} |-> NoneV]

(* make_org: the default args dictionary, lines 908-912 *)
make_org_args ==
    ("name" :> "~generate_name")
    @@ [k \in {"label", "description"} |-> NoneV]

(* make_os: the default args dictionary, lines 942-953 *)
make_os_args ==
    ("major" :> "~random.randint")
    @@ ("minor" :> "~random.randint")
    @@ ("name" :> "~generate_name")
    @@ [k \in {"architecture-ids", "config-template-ids", "description",
                "family", "medium-ids", "ptable-ids", "release-name"} |-> NoneV]

(* make_domain: the default args dictionary, lines 974-978 *)
make_domain_args ==
    ("name" :> "~generate_name")
    @@ [k \in {"dns-id", "description"} |-> NoneV]

(* make_hostgroup: the default args dictionary, lines 1016-1036 *)
make_hostgroup_args ==
    ("name" :> "~generate_name")
    @@ [k \in {"architecture", "architecture-id", "domain", "domain-id",
                "environment", "medium", "medium-id", "operatingsystem-id",
                "parent-id", "ptable", "ptable-id", "puppet-ca-proxy-id",
                "puppet-proxy-id", "puppetclass-ids", "realm", "realm-id",
                "subnet", "subnet-id"} |-> NoneV]

(* make_medium: the default args dictionary, lines 1077-1082 *)
make_medium_args ==
    ("name" :> "~generate_name")
    @@ ("path" :> "http://~generate_string")
    @@ [k \in {"os-family", "operatingsystem-ids"} |-> NoneV]

(* make_environment: the default args dictionary, lines 1101-1103 *)
make_environment_args ==
    ("name" :> "~generate_name")

(* make_lifecycle_environment: the default args dictionary, lines 1136-1141 *)
make_lifecycle_environment_args ==
    ("name" :> "~generate_name")
    @@ [k \in {"organization-id", "description", "prior"} |-> NoneV]

(* make_template: the default args dictionary, lines 1167-1173 *)
make_template_args ==
    ("file" :> RemotePath)
    @@ ("type" :> "~random.choice")
    @@ ("name" :> "~generate_name")
    @@ [k \in {"audit-comment", "operatingsystem-ids"} |-> NoneV]

(* ------------------------- the factory functions ----------------------- *)

Factories ==
    {"make_activation_key", "make_architecture", "make_content_view",
     "make_gpg_key", "make_model", "make_partition_table", "make_product",
     "make_proxy", "make_repository", "make_subnet", "make_sync_plan",
     "make_content_host", "make_host", "make_host_collection", "make_user",
     "make_compute_resource", "make_org", "make_os", "make_domain",
     "make_hostgroup", "make_medium", "make_environment",
     "make_lifecycle_environment", "make_template"}

(* the dictionary "args = {...}" of factory f *)
DefaultArgs(f) ==
    CASE f = "make_activation_key" -> make_activation_key_args
      [] f = "make_architecture" -> make_architecture_args
      [] f = "make_content_view" -> make_content_view_args
      [] f = "make_gpg_key" -> make_gpg_key_args
      [] f = "make_model" -> make_model_args
      [] f = "make_partition_table" -> make_partition_table_args
      [] f = "make_product" -> make_product_args
      [] f = "make_proxy" -> make_proxy_args
      [] f = "make_repository" -> make_repository_args
      [] f = "make_subnet" -> make_subnet_args
      [] f = "make_sync_plan" -> make_sync_plan_args
      [] f = "make_content_host" -> make_content_host_args
      [] f = "make_host" -> make_host_args
      [] f = "make_host_collection" -> make_host_collection_args
      [] f = "make_user" -> make_user_args
      [] f = "make_compute_resource" -> make_compute_resource_args
      [] f = "make_org" -> make_org_args
      [] f = "make_os" -> make_os_args
      [] f = "make_domain" -> make_domain_args
      [] f = "make_hostgroup" -> make_hostgroup_args
      [] f = "make_medium" -> make_medium_args
      [] f = "make_environment" -> make_environment_args
      [] f = "make_lifecycle_environment" -> make_lifecycle_environment_args
      [] f = "make_template" -> make_template_args

(* cli_object.__name__ of the class factory f hands to create_object *)
CliObject(f) ==
    CASE f = "make_activation_key" -> "ActivationKey"
      [] f = "make_architecture" -> "Architecture"
      [] f = "make_content_view" -> "ContentView"
      [] f = "make_gpg_key" -> "GPGKey"
      [] f = "make_model" -> "Model"
      [] f = "make_partition_table" -> "PartitionTable"
      [] f = "make_product" -> "Product"
      [] f = "make_proxy" -> "Proxy"
      [] f = "make_repository" -> "Repository"
      [] f = "make_subnet" -> "Subnet"
      [] f = "make_sync_plan" -> "SyncPlan"
      [] f = "make_content_host" -> "ContentHost"
      [] f = "make_host" -> "Host"
      [] f = "make_host_collection" -> "HostCollection"
      [] f = "make_user" -> "User"
      [] f = "make_compute_resource" -> "ComputeResource"
      [] f = "make_org" -> "Org"
      [] f = "make_os" -> "OperatingSys"
      [] f = "make_domain" -> "Domain"
      [] f = "make_hostgroup" -> "HostGroup"
      [] f = "make_medium" -> "Medium"
      [] f = "make_environment" -> "Environment"
      [] f = "make_lifecycle_environment" -> "LifecycleEnvironment"
      [] f = "make_template" -> "Template"

(* the factories that write a local file and upload it *)
FileBacked == {"make_gpg_key", "make_partition_table", "make_template"}

(* the key of args that holds the remote path of the uploaded file *)
FileKey(f) == IF f = "make_gpg_key" THEN "key" ELSE "file"

(* --------------------- validation of required options ------------------ *)

(* "not options": None and the empty dictionary are both false *)
NotOptions(o) == o.none \/ DOMAIN o.d = {}

(* no exception *)
NoError == ""

(* "not options or not options.get('organization-id', None)" and alike *)
MissingOption(o, key) == NotOptions(o) \/ ~Truthy(Get(o.d, key))

make_activation_key_check(o) ==
    IF \/ NotOptions(o)
       \/ /\ ~Truthy(Get(o.d, "organization"))
          /\ ~Truthy(Get(o.d, "organization-label"))
          /\ ~Truthy(Get(o.d, "organization-id"))
    THEN "Please provide a valid Organization."
    ELSE NoError

make_content_view_check(o) ==
    IF MissingOption(o, "organization-id")
    THEN "Please provide a valid ORG ID." ELSE NoError

(* variant: tests that the key is present, not that its value is true *)
make_gpg_key_check_presence(o) ==
    IF o.none \/ "organization-id" \notin DOMAIN o.d
    THEN "Please provide a valid ORG ID." ELSE NoError

make_gpg_key_check(o) ==
    IF MissingOption(o, "organization-id")
    THEN "Please provide a valid ORG ID." ELSE NoError

make_product_check(o) ==
    IF MissingOption(o, "organization-id")
    THEN "Please provide a valid ORG ID." ELSE NoError

make_repository_check(o) ==
    IF MissingOption(o, "product-id")
    THEN "Please provide a valid Product ID." ELSE NoError

make_sync_plan_check(o) ==
    IF MissingOption(o, "organization-id")
    THEN "Please provide a valid ORG ID." ELSE NoError

(* variant: looks at the first key of the group only *)
AnyOption_first(o, keys) == Truthy(Get(o.d, keys[1]))

(* any(options.get(key) for key in keys) *)
AnyOption(o, keys) == \E i \in DOMAIN keys : Truthy(Get(o.d, keys[i]))

make_content_host_check(o) ==
    IF NotOptions(o) THEN "Please provide required parameters"
    ELSE IF ~AnyOption(o, ORG_KEYS)
    THEN "Please provide a valid organization field."
    ELSE IF ~AnyOption(o, CONTENT_VIEW_KEYS)
    THEN "Please provide one of " \o Join(", ", CONTENT_VIEW_KEYS) \o "."
    ELSE IF ~AnyOption(o, LIFECYCLE_KEYS)
    THEN "Please provide one of " \o Join(", ", LIFECYCLE_KEYS) \o "."
    ELSE NoError

required_options ==
    <<"architecture-id", "domain-id", "environment-id", "medium-id",
      "operatingsystem-id", "partition-table-id", "puppet-proxy-id">>

(* variant: only the options that are absent count as missing *)
missing_options_absent_only(o) ==
    SelectSeq(required_options, LAMBDA option : option \notin DOMAIN o.d)

(* [option for option in required_options if options.get(option) is None] *)
missing_options(o) ==
    SelectSeq(required_options, LAMBDA option : Get(o.d, option) = NoneV)

make_host_check(o) ==
    IF o.none
    THEN "Options " \o Join(", ", required_options) \o " are required"
    ELSE IF missing_options(o) # <<>>
    THEN "Options " \o Join(", ", missing_options(o)) \o " are required"
    ELSE NoError

make_host_collection_check(o) ==
    IF MissingOption(o, "organization-id")
    THEN "Please provide a valid ORGANIZATION_ID." ELSE NoError

make_lifecycle_environment_check(o) ==
    IF MissingOption(o, "organization-id")
    THEN "Please provide a valid ORG ID." ELSE NoError

(* the message of the CLIFactoryError the factory's checks raise, if any *)
ValidationError(f, o) ==
    CASE f = "make_activation_key" -> make_activation_key_check(o)
      [] f = "make_content_view" -> make_content_view_check(o)
      [] f = "make_gpg_key" -> make_gpg_key_check(o)
      [] f = "make_product" -> make_product_check(o)
      [] f = "make_repository" -> make_repository_check(o)
      [] f = "make_sync_plan" -> make_sync_plan_check(o)
      [] f = "make_content_host" -> make_content_host_check(o)
      [] f = "make_host" -> make_host_check(o)
      [] f = "make_host_collection" -> make_host_collection_check(o)
      [] f = "make_lifecycle_environment" ->
            make_lifecycle_environment_check(o)
      [] OTHER -> NoError

(* ------------------------- values of the backend ----------------------- *)

(* A Python object as stdout holds it: t is its type; d, s, l its content *)
(* when it is a dict, a str or a list (of objects that are no lists).     *)
PyNone == [t |-> "none", d |-> EmptyDict, s |-> "", l |-> <<>>]

PyDict(m) == [t |-> "dict", d |-> m, s |-> "", l |-> <<>>]

PyStr(x) == [t |-> "str", d |-> EmptyDict, s |-> x, l |-> <<>>]

PyList(seq) == [t |-> "list", d |-> EmptyDict, s |-> "", l |-> seq]

(* the mappings a backend reports for a created object *)
Mappings == {("id" :> "1"), ("id" :> "1") @@ ("name" :> "~server-name")}

ListElems == {PyDict(m) : m \in Mappings} \cup {PyStr("created")}

Stdouts ==
    {PyDict(m) : m \in Mappings}
    \cup {PyList(s) : s \in UNION {[1..n -> ListElems] : n \in 0..MaxListLen}}

(* stderr is a text: a sequence of characters *)
NL == "\n"

Chars == {"e", NL}

Stderrs == UNION {[1..n -> Chars] : n \in 0..MaxStderrLen}

(* the non-zero return codes of the modelled backend *)
FailCodes == {1}

(* what cli_object.create(args) may return; the part create_object does   *)
(* not read (stderr on success, stdout on failure) is left empty          *)
Results ==
    {[return_code |-> 0, stdout |-> s, stderr |-> <<>>] : s \in Stdouts}
    \cup {[return_code |-> c, stdout |-> PyList(<<>>), stderr |-> e] :
             c \in FailCodes, e \in Stderrs}

NoResult == [return_code |-> 0, stdout |-> PyNone, stderr |-> <<>>]

(* ssh.upload_file(local_file, remote_file) -> success / failure *)
upload_file_results == BOOLEAN

(* ------------------------------ helpers -------------------------------- *)

(* msg.split('\n'): the lines of a text, at least one *)
RECURSIVE Split(_)
Split(msg) ==
    IF \A i \in DOMAIN msg : msg[i] # NL THEN <<msg>>
    ELSE LET i == CHOOSE j \in DOMAIN msg :
                      msg[j] = NL /\ \A h \in 1..(j - 1) : msg[h] # NL
         IN  <<SubSeq(msg, 1, i - 1)>> \o Split(SubSeq(msg, i + 1, Len(msg)))

(* u'\n'.join(lines) on texts *)
RECURSIVE JoinLines(_)
JoinLines(lines) ==
    IF Len(lines) = 1 THEN lines[1]
    ELSE lines[1] \o <<NL>> \o JoinLines(Tail(lines))

(* variant: indents the text once, not each of its lines *)
_format_error_msg_once(msg) == <<" ", " ">> \o msg

(* u'\n'.join(['  {0}'.format(line) for line in msg.split('\n')]) *)
_format_error_msg(msg) ==
    JoinLines([i \in DOMAIN Split(msg) |-> <<" ", " ">> \o Split(msg)[i]])

(* update_dictionary(default, updates): the updates laid over default;    *)
(* a false updates (None, {}) leaves default as it is                     *)
update_dictionary(default, updates) ==
    IF NotOptions(updates) THEN default ELSE updates.d @@ default

(* variant: keeps the value d has for a key of both *)
Update_keep(d, other) == d @@ other

(* dict.update(other) for a dictionary other *)
Update(d, other) == other @@ d

(* an exception: its type and the parts its message is formatted from *)
NoException ==
    [type |-> "", msg |-> "", name |-> "", args |-> EmptyDict, diag |-> <<>>]

CLIFactoryError(text) ==
    [type |-> "CLIFactoryError", msg |-> text, name |-> "",
     args |-> EmptyDict, diag |-> <<>>]

(* CLIFactoryError('Failed to create %s with %r data due to:\n%s' % (...)) *)
CreateError(name, a, stderr) ==
    [type |-> "CLIFactoryError",
     msg |-> "Failed to create %s with %r data due to:\n%s",
     name |-> name, args |-> a, diag |-> _format_error_msg(stderr)]

PythonError(type) ==
    [type |-> type, msg |-> "", name |-> "", args |-> EmptyDict,
     diag |-> <<>>]

(* a call to a collaborator *)
Call(op, obj, a) == [op |-> op, obj |-> obj, a |-> a]

UploadCall(local, remote) ==
    Call("upload_file", "ssh",
         ("local_file" :> local) @@ ("remote_file" :> remote))

(* variant: unwraps a list of exactly one element, "len(...) == 1" *)
Normalize_len1(stdout) ==
    IF stdout.t = "list" /\ Len(stdout.l) = 1 THEN stdout.l[1] ELSE stdout

(* variant: never unwraps *)
Normalize_asis(stdout) == stdout

(* stdout as create_object returns it: the first element of a non-empty   *)
(* list, anything else as it is                                           *)
Normalize(stdout) ==
    IF stdout.t = "list" /\ Len(stdout.l) > 0 THEN stdout.l[1] ELSE stdout

(* args.update(obj) raises on an obj that is no mapping and no iterable   *)
(* of pairs                                                               *)
UpdateError(obj) ==
    CASE obj.t = "dict" -> ""
      [] obj.t = "list" -> IF obj.l = <<>> THEN "" ELSE "ValueError"
      [] obj.t = "str" -> IF obj.s = "" THEN "" ELSE "ValueError"
      [] OTHER -> "TypeError"

(* ------------------------- the caller's options ------------------------ *)

AsSet(seq) == Range(seq)

(* the option keys a modelled caller passes to factory f: the keys the    *)
(* factory treats specially, "name" (every factory generates one) and,    *)
(* where the factory has no special key, "description"                    *)
OptKeys(f) ==
    CASE f = "make_activation_key" -> AsSet(ORG_KEYS) \cup {"name"}
      [] f \in {"make_content_view", "make_product", "make_sync_plan",
                "make_host_collection"} -> {"organization-id", "name"}
      [] f = "make_repository" -> {"product-id", "name"}
      [] f = "make_gpg_key" -> {"organization-id", "key", "name"}
      [] f \in {"make_partition_table", "make_template"} ->
            {"file", "content", "name"}
      [] f = "make_proxy" -> {"url", "name"}
      [] f = "make_compute_resource" -> {"provider", "url", "name"}
      [] f = "make_lifecycle_environment" ->
            {"organization-id", "prior", "name"}
      [] f = "make_content_host" ->
            AsSet(ORG_KEYS) \cup AsSet(CONTENT_VIEW_KEYS)
            \cup AsSet(LIFECYCLE_KEYS) \cup {"name"}
      [] f = "make_host" -> AsSet(required_options) \cup {"name"}
      [] OTHER -> {"name", "description"}

(* the values a modelled caller gives an option: None, the empty string   *)
(* and a value of its own (make_content_host: None and a value)           *)
OptVals(f) ==
    IF f = "make_content_host" THEN {NoneV, "u1"} ELSE {NoneV, "", "u1"}

None == [none |-> TRUE, d |-> EmptyDict]

Dict(d) == [none |-> FALSE, d |-> d]

OptionSpace(f) ==
    {None} \cup
    {Dict(d) : d \in UNION {[S -> OptVals(f)] : S \in SUBSET OptKeys(f)}}

(* ================== the model layer: robottelo/orm.py ================== *)

(* largest max_len a field declaration gives, the default 30 apart *)
MaxFieldLen == 3

(* how many times get_value() is called on one field *)
MaxCalls == 2

(* StringField.__init__(self, max_len=30, ...) *)
DefaultMaxLen == 30

(* A Python value of the model layer: its type t, its length (str, list)  *)
(* or its number (int, float) n, and what tells it from other values, id. *)
Val(t, n, id) == [t |-> t, n |-> n, id |-> id]

NoneVal == Val("NoneType", 0, "None")

StrVal(n, id) == Val("str", n, id)

IntVal(n) == Val("int", n, "")

(* the outcome of a call that raised the exception type *)
Raised(type) == Val("raise", 0, type)

(* no call made yet *)
NotCalled == Val("", 0, "")

(* the Entity subclasses of the module robottelo.entities *)
EntityNames == {"OwnerEntity", "PetEntity"}

(* what a relationship field is declared with: the class itself, or the   *)
(* name of the class as a string                                          *)
Targets == [name : EntityNames, by_name : BOOLEAN]

(* _get_class: a class is returned untouched, a name is looked up in the  *)
(* module when the call is made; getattr raises on an unknown name        *)
_get_class(class_or_name) ==
    IF ~class_or_name.by_name
    THEN class_or_name.name
    ELSE IF class_or_name.name \in EntityNames
         THEN class_or_name.name
         ELSE "AttributeError"

(* the values a declaration names as default or among its choices *)
DeclaredValues ==
    {StrVal(1, "declared"), StrVal(DefaultMaxLen + 1, "declared"),
     Val("bool", 0, "True")}

(* default=None is a declared default as well *)
Defaults == DeclaredValues \cup {NoneVal}

ChoiceSets == SUBSET DeclaredValues \ {{}}

(* field.options, the keyword arguments of the declaration *)
FieldOptions ==
    {d @@ c : d \in {<<>>} \cup {("default" :> v) : v \in Defaults},
              c \in {<<>>} \cup {("choices" :> s) : s \in ChoiceSets}}

(* FauxFactory.generate_choice: one of the choices *)
generate_choice(choices) == choices

(* FauxFactory.generate_integer(min_value, max_value): an integer of the  *)
(* closed range; None stands for the limit of the platform, of which the  *)
(* model draws the integers from -1 to MaxFieldLen + 1                    *)
generate_integer(min_value, max_value) ==
    LET lo == IF min_value = NoneVal THEN -1 ELSE min_value.n
        hi == IF max_value = NoneVal THEN MaxFieldLen + 1 ELSE max_value.n
    IN  {IntVal(n) : n \in lo..hi}

(* FauxFactory.generate_string(str_type, length) *)
generate_string(str_type, length) == StrVal(length, str_type)

(* FauxFactory.generate_ipaddr: "0.0.0.0" to "255.255.255.255" *)
generate_ipaddr == {StrVal(n, "ipaddr") : n \in 7..15}

(* FauxFactory.generate_mac: six pairs of hexadecimal digits *)
generate_mac == {StrVal(17, "mac")}

(* FauxFactory.generate_url: scheme://subdomain.tld *)
generate_url == {StrVal(n, "url") : n \in 14..20}

(* FauxFactory.generate_email: name@subdomain.tld *)
generate_email == {StrVal(n, "email") : n \in 17..21}

(* FauxFactory.generate_boolean *)
generate_boolean == {Val("bool", 0, "True"), Val("bool", 0, "False")}

(* variant: the choices are looked at before the default *)
_get_value_choices_first(fld, default) ==
    IF "choices" \in DOMAIN fld.options
    THEN generate_choice(fld.options["choices"])
    ELSE IF "default" \in DOMAIN fld.options
         THEN {fld.options["default"]}
         ELSE default

(* variant: a declared choice set does not keep the generator out *)
_get_value_choices_or_default(fld, default) ==
    IF "default" \in DOMAIN fld.options
    THEN {fld.options["default"]}
    ELSE IF "choices" \in DOMAIN fld.options
         THEN generate_choice(fld.options["choices"]) \cup default
         ELSE default

(* _get_value(field, default): the values the call may return; default is *)
(* the set of values the generator handed in may yield                    *)
_get_value(fld, default) ==
    IF "default" \in DOMAIN fld.options
    THEN {fld.options["default"]}
    ELSE IF "choices" \in DOMAIN fld.options
         THEN generate_choice(fld.options["choices"])
         ELSE default

BooleanField_get_value(fld) == _get_value(fld, generate_boolean)

EmailField_get_value(fld) == _get_value(fld, generate_email)

(* random.random() * 10000: a float of [0, 10000) *)
FloatField_get_value(fld) ==
    _get_value(fld, {Val("float", n, "random") : n \in {0, 9999}})

IntegerField_get_value(fld) ==
    _get_value(fld, generate_integer(fld.min_val, fld.max_val))

(* variant: a string one character longer than max_len may be generated *)
StringField_get_value_longer(fld) ==
    _get_value(fld,
        {generate_string(str_type, length.n) :
            str_type \in Range(fld.str_type),
            length \in generate_integer(IntVal(1), IntVal(fld.max_len + 1))})

StringField_get_value(fld) ==
    _get_value(fld,
        {generate_string(str_type, length.n) :
            str_type \in generate_choice(Range(fld.str_type)),
            length \in generate_integer(IntVal(1), IntVal(fld.max_len))})

IPAddressField_get_value(fld) == _get_value(fld, generate_ipaddr)

MACAddressField_get_value(fld) == _get_value(fld, generate_mac)

URLField_get_value(fld) == _get_value(fld, generate_url)

(* _get_class(self.model)(): an instance of the class *)
OneToOneField_get_value(fld) ==
    LET class == _get_class(fld.target)
    IN  IF class = "AttributeError"
        THEN {Raised("AttributeError")}
        ELSE {Val("instance", 0, class)}

(* [_get_class(self.entity)()]: a list of one instance of the class *)
OneToManyField_get_value(fld) ==
    LET class == _get_class(fld.target)
    IN  IF class = "AttributeError"
        THEN {Raised("AttributeError")}
        ELSE {Val("list", 1, class)}

(* the field classes whose get_value() goes through _get_value *)
ValueFields ==
    {"BooleanField", "EmailField", "FloatField", "IntegerField",
     "StringField", "IPAddressField", "MACAddressField", "URLField"}

(* StringField and its subclasses *)
StringFields ==
    {"StringField", "IPAddressField", "MACAddressField", "URLField"}

RelationshipFields == {"OneToOneField", "OneToManyField"}

(* the field classes that define no get_value() *)
NoValueFields == {"Field", "DateField", "DateTimeField", "ListField"}

FieldTypes == ValueFields \cup RelationshipFields \cup NoValueFields

(* field.get_value(), by the class of the field *)
get_value(fld) ==
    CASE fld.type = "BooleanField" -> BooleanField_get_value(fld)
      [] fld.type = "EmailField" -> EmailField_get_value(fld)
      [] fld.type = "FloatField" -> FloatField_get_value(fld)
      [] fld.type = "IntegerField" -> IntegerField_get_value(fld)
      [] fld.type = "StringField" -> StringField_get_value(fld)
      [] fld.type = "IPAddressField" -> IPAddressField_get_value(fld)
      [] fld.type = "MACAddressField" -> MACAddressField_get_value(fld)
      [] fld.type = "URLField" -> URLField_get_value(fld)
      [] fld.type = "OneToOneField" -> OneToOneField_get_value(fld)
      [] fld.type = "OneToManyField" -> OneToManyField_get_value(fld)
      [] OTHER -> {Raised("AttributeError")}

(* the attributes a declaration does not have: max_len 0, str_type <<>>,  *)
(* min_val and max_val None, target NoTarget                              *)
NoTarget == [name |-> "", by_name |-> FALSE]

FieldDecl(type, opts, max_len, str_type, min_val, max_val, target) ==
    [type |-> type, options |-> opts, max_len |-> max_len,
     str_type |-> str_type, min_val |-> min_val, max_val |-> max_val,
     target |-> target]

MaxLens == 1..MaxFieldLen \cup {DefaultMaxLen}

StrTypes == {<<"utf8">>, <<"alpha", "numeric">>}

(* the declarations of one field, by class *)
FieldDecls ==
    {FieldDecl(t, o, m, s, NoneVal, NoneVal, NoTarget) :
        t \in StringFields, o \in FieldOptions, m \in MaxLens,
        s \in StrTypes}
    \cup
    {FieldDecl("IntegerField", o, 0, <<>>, lo, hi, NoTarget) :
        o \in FieldOptions, lo \in {NoneVal, IntVal(0)},
        hi \in {NoneVal, IntVal(MaxFieldLen)}}
    \cup
    {FieldDecl(t, o, 0, <<>>, NoneVal, NoneVal, NoTarget) :
        t \in {"BooleanField", "EmailField", "FloatField"} \cup NoValueFields,
        o \in FieldOptions}
    \cup
    {FieldDecl(t, o, 0, <<>>, NoneVal, NoneVal, target) :
        t \in RelationshipFields, o \in FieldOptions, target \in Targets}

(* no field declaration under consideration *)
NoField == FieldDecl("", <<>>, 0, <<>>, NoneVal, NoneVal, NoTarget)

FieldIdle ==
    /\ field = NoField
    /\ value = NotCalled
    /\ calls = 0

(* ----------------------------- Entity.path ----------------------------- *)

(* largest id an entity is given *)
MaxId == 2

(* A URL is the sequence of its parts: the scheme and host as one part,   *)
(* "/" and the path segments.                                             *)
ServerUrls == {<<"https://sat.example.com">>, <<"http://localhost:3000">>}

(* Meta.api_path of the Entity subclasses *)
ApiPaths ==
    {<<"api", "/", "v2", "/", "organizations">>,
     <<"/", "api", "/", "v2", "/", "domains">>,
     <<"katello", "/", "api", "/", "v2", "/", "environments">>,
     <<"api", "/", "hosts", "/">>}

(* str(self.id) of a non-negative integer *)
Digits == <<"0", "1", "2", "3", "4", "5", "6", "7", "8", "9">>

RECURSIVE str(_)
str(n) ==
    IF n < 10 THEN Digits[n + 1] ELSE str(n \div 10) \o Digits[(n % 10) + 1]

(* the index of the last "/" of a URL, 0 when it has none *)
LastSlash(url) ==
    LET slashes == {i \in DOMAIN url : url[i] = "/"}
    IN  IF slashes = {} THEN 0
        ELSE CHOOSE i \in slashes : \A j \in slashes : j <= i

(* urlparse.urljoin(base, url) for a relative url with no scheme, query   *)
(* or dot segment: an empty url gives base; a url with a leading "/"      *)
(* replaces the whole path of base; any other url replaces what follows   *)
(* the last "/" of base                                                   *)
urljoin(base, url) ==
    IF url = <<>> THEN base
    ELSE IF url[1] = "/" THEN <<base[1]>> \o url
    ELSE SubSeq(base, 1, LastSlash(base)) \o url

(* the outcome of a call of path: the URL returned or the exception *)
Returned(url) == [raised |-> "", url |-> url]

Raise(exception) == [raised |-> exception, url |-> <<>>]

(* before any call *)
NoPath == [raised |-> "", url |-> <<>>]

(* variant: the id is joined to base itself, not to base + '/' *)
path_replace(server, ent, which_) ==
    LET base == urljoin(server \o <<"/">>, ent.api_path)
    IN  IF which_ = "all" \/ (which_ = NoneV /\ ent.id = NoneVal)
        THEN Returned(base)
        ELSE IF ent.id # NoneVal /\ (which_ = NoneV \/ which_ = "this")
             THEN Returned(urljoin(base, <<str(ent.id.n)>>))
             ELSE Raise("NoSuchPathError")

(* variant: any selector falls back to the path of all entities *)
path_lenient(server, ent, which_) ==
    LET base == urljoin(server \o <<"/">>, ent.api_path)
    IN  IF ent.id # NoneVal /\ (which_ = NoneV \/ which_ = "this")
        THEN Returned(urljoin(base \o <<"/">>, <<str(ent.id.n)>>))
        ELSE Returned(base)

(* Entity.path(self, which=None); server is helpers.get_server_url() *)
path(server, ent, which_) ==
    LET base == urljoin(server \o <<"/">>, ent.api_path)
    IN  IF which_ = "all" \/ (which_ = NoneV /\ ent.id = NoneVal)
        THEN Returned(base)
        ELSE IF ent.id # NoneVal /\ (which_ = NoneV \/ which_ = "this")
             THEN Returned(urljoin(base \o <<"/">>, <<str(ent.id.n)>>))
             ELSE Raise("NoSuchPathError")

(* the values of the id field *)
Ids == {NoneVal} \cup {IntVal(n) : n \in 0..MaxId}

(* the selectors path is called with *)
Selectors == {NoneV, "all", "this", "self", ""}

PathIdle ==
    /\ server_url = <<>>
    /\ entity = [id |-> NoneVal, api_path |-> <<>>]
    /\ which = ""
    /\ path_result = NoPath
    /\ path_calls = 0

(* ------------------------ OneToManyField.__set__ ----------------------- *)

(* longest list assigned to a one-to-many field *)
MaxSeqLen == 2

(* An object handed to a field: an entity instance of class cls built     *)
(* from the keyword arguments attrs, a dict attrs, or a list of items.    *)
Inst(cls, attrs) ==
    [kind |-> "instance", cls |-> cls, attrs |-> attrs, items |-> <<>>]

Mapping(attrs) ==
    [kind |-> "dict", cls |-> "", attrs |-> attrs, items |-> <<>>]

List(items) ==
    [kind |-> "list", cls |-> "", attrs |-> <<>>, items |-> items]

(* the field holds nothing yet *)
Unset == [kind |-> "", cls |-> "", attrs |-> <<>>, items |-> <<>>]

(* keyword arguments of an entity *)
AttrMaps == {<<>>, ("name" :> "fido")}

Instances == {Inst(c, a) : c \in EntityNames, a \in AttrMaps}

Mappings_ == {Mapping(a) : a \in AttrMaps}

Elements == Instances \cup Mappings_

Lists == {List(s) : s \in UNION {[1..n -> Elements] : n \in 0..MaxSeqLen}}

(* what is assigned to the field *)
Assigned == Elements \cup Lists

(* isinstance(value, self.entity): self.entity as declared, a class or a  *)
(* str; a str as second argument makes isinstance raise TypeError         *)
isinstance(obj, entity_) ==
    IF entity_.by_name THEN "TypeError"
    ELSE IF obj.kind = "instance" /\ obj.cls = entity_.name
         THEN "True" ELSE "False"

(* self.entity called with the dict as keyword arguments: the call of a   *)
(* class builds an instance, the call of a str raises TypeError           *)
construct(entity_, attrs) ==
    IF entity_.by_name THEN Raised("TypeError")
    ELSE Inst(entity_.name, attrs)

(* the list with its dicts replaced by instances of self.entity *)
ConvertItems(entity_, items) ==
    [i \in DOMAIN items |->
        IF items[i].kind = "dict"
        THEN construct(entity_, items[i].attrs)
        ELSE items[i]]

(* the outcome of __set__: what the field holds and the exception raised *)
Outcome(held, exception) == [held |-> held, error |-> exception]

(* OneToManyField.__set__(self, instance, value); old is what the field   *)
(* held before                                                            *)
__set__(fld, old, obj) ==
    IF isinstance(obj, fld.target) = "TypeError"
    THEN Outcome(old, "TypeError")
    ELSE IF isinstance(obj, fld.target) = "True"
         THEN Outcome(List(<<obj>>), "")
         ELSE IF obj.kind = "dict"
              THEN Outcome(List(<<construct(fld.target, obj.attrs)>>), "")
              ELSE IF obj.kind = "list"
                   THEN Outcome(List(ConvertItems(fld.target, obj.items)), "")
                   ELSE Outcome(obj, "")

(* the declarations of a one-to-many field *)
OneToManyDecls ==
    {FieldDecl("OneToManyField", <<>>, 0, <<>>, NoneVal, NoneVal, target) :
        target \in Targets}

RelIdle ==
    /\ rel_field = NoField
    /\ rel_value = Unset
    /\ rel_held = Unset
    /\ rel_err = ""
    /\ rel_synth = NotCalled

(* -------------------------- Entity.get_values -------------------------- *)

(* the fields of an Entity subclass: id and two fields of its own *)
EntityFields == {"id", "name", "description"}

(* the defaults the class declares: id = IntegerField() has none, each    *)
(* other field may be declared with default='...'                         *)
DeclaredDefaults ==
    UNION {[S -> {StrVal(7, "default")}] :
              S \in SUBSET (EntityFields \ {"id"})}

(* the values a field is given *)
FieldValues(f) ==
    IF f = "id" THEN {NoneVal, IntVal(1)} ELSE {NoneVal, StrVal(3, "foo")}

(* instance._data after the constructor call with keyword arguments: the  *)
(* fields that were given, None included                                  *)
InstanceData ==
    UNION {{d \in [S -> UNION {FieldValues(f) : f \in EntityFields}] :
               \A f \in S : d[f] \in FieldValues(f)} :
              S \in SUBSET EntityFields}

(* the value reading a field gives: the one assigned, else the declared   *)
(* default, else None                                                     *)
FieldValue(defaults, data, f) ==
    IF f \in DOMAIN data THEN data[f]
    ELSE IF f \in DOMAIN defaults THEN defaults[f]
    ELSE NoneVal

(* dict(self): every field with the value reading it gives *)
dict(defaults, data) ==
    [f \in EntityFields |-> FieldValue(defaults, data, f)]

(* variant: no key is popped *)
get_values_keep_none(defaults, data) ==
    dict(defaults, data)

(* Entity.get_values(self): dict(self) without the keys whose value is    *)
(* None                                                                   *)
get_values(defaults, data) ==
    LET fields == dict(defaults, data)
    IN  [key \in {k \in DOMAIN fields : fields[k] # NoneVal} |-> fields[key]]

(* get_values() not called yet *)
NoValues == [f \in {"<not called>"} |-> NotCalled]

ValuesIdle ==
    /\ ent_defaults = <<>>
    /\ ent_data = <<>>
    /\ values = NoValues

OrmIdle ==
    /\ FieldIdle
    /\ PathIdle
    /\ RelIdle
    /\ ValuesIdle

(* --------------------- scripts/graph_entities.py ----------------------- *)

(* the declarations of a relationship field, with required=True,          *)
(* required=False or no such option                                       *)
RelationshipDecls ==
    {FieldDecl(t, o, 0, <<>>, NoneVal, NoneVal, target) :
        t \in RelationshipFields,
        o \in {<<>>, ("required" :> TRUE), ("required" :> FALSE)},
        target \in Targets}

(* id = IntegerField(), the field every Entity has *)
IdField == FieldDecl("IntegerField", <<>>, 0, <<>>, NoneVal, NoneVal, NoTarget)

(* the fields of the two entity classes: OwnerEntity has id, maybe pets   *)
(* and maybe spouse, a required reference to its own class; PetEntity has *)
(* id and maybe owner                                                     *)
OwnerFields ==
    {p @@ s @@ ("id" :> IdField) :
        p \in {<<>>} \cup {("pets" :> d) : d \in RelationshipDecls},
        s \in {<<>>,
               ("spouse" :> FieldDecl("OneToOneField", ("required" :> TRUE),
                                      0, <<>>, NoneVal, NoneVal,
                                      [name |-> "OwnerEntity",
                                       by_name |-> TRUE]))}}

PetFields ==
    {o @@ ("id" :> IdField) :
        o \in {<<>>} \cup {("owner" :> d) : d \in RelationshipDecls}}

(* entities_: the Entity subclasses of robottelo.entities by name, each   *)
(* with its fields and whether it is a factory.Factory subclass           *)
Schemas ==
    {("OwnerEntity" :> [factory |-> fo, fields |-> o]) @@
     ("PetEntity" :> [factory |-> fp, fields |-> p]) :
        fo \in BOOLEAN, o \in OwnerFields, fp \in BOOLEAN, p \in PetFields}

(* isinstance(field, orm.OneToOneField) or                                *)
(* isinstance(field, orm.OneToManyField)                                  *)
IsRelationship(fld) == fld.type \in RelationshipFields

(* '{1}'.format(dependency): a name as it is, a class as its repr *)
FormatDependency(dependency) ==
    IF dependency.by_name
    THEN dependency.name
    ELSE "<class 'robottelo.entities." \o dependency.name \o "'>"

(* field.options.get('required', False) *)
IsRequired(fld) ==
    IF "required" \in DOMAIN fld.options
    THEN fld.options["required"]
    ELSE FALSE

(* A line of the output, by the arguments of its format string. *)
Line(stmt, tail, head, label, attrs) ==
    [stmt |-> stmt, tail |-> tail, head |-> head, label |-> label,
     attrs |-> attrs]

(* 'digraph dependencies {' and '}' *)
OpenLine == Line("digraph dependencies {", "", "", "", "")

CloseLine == Line("}", "", "", "", "")

(* variant: the edge is red when the option required is given at all *)
EdgeLine_required_given(entity_name, field_name, fld) ==
    Line("edge", entity_name, FormatDependency(fld.target), field_name,
         IF "required" \in DOMAIN fld.options THEN " color=red" ELSE "")

(* '{0} -> {1} [label="{2}"{3}]'.format(entity_name, dependency,          *)
(* field_name, ' color=red' if required else '')                          *)
EdgeLine(entity_name, field_name, fld) ==
    Line("edge", entity_name, FormatDependency(fld.target), field_name,
         IF IsRequired(fld) THEN " color=red" ELSE "")

(* '{0} [style=dotted]'.format(entity_name) *)
NodeLine(entity_name) == Line("node", entity_name, "", "", " style=dotted")

GraphIdle ==
    /\ entities_ = <<>>
    /\ graph_pc = "idle"
    /\ graph_entity = ""
    /\ entities_seen = {}
    /\ fields_seen = {}
    /\ printed = <<>>

(* ================ the UI factories: robottelo/ui/factory.py ============ *)

(* longest text of the menu's current context, in characters *)
MaxTextLen == 2

(* the UI factory functions, edit_param included: it goes through         *)
(* core_factory as they do                                                *)
UiFactories ==
    {"make_org", "make_loc", "make_product", "make_gpgkey", "make_subnet",
     "make_domain", "make_user", "make_hostgroup", "make_env",
     "make_resource", "make_media", "make_templates", "make_os",
     "make_arch", "make_partitiontable", "make_puppetclasses",
     "make_config_groups", "edit_param"}

(* the dictionary create_args (update_args in edit_param) each factory    *)
(* starts from: None is NoneV, False and True are "False" and "True"      *)
UiCreateArgs(f) ==
    CASE f = "make_org" ->
            ("edit" :> "False") @@ ("select" :> "True")
            @@ [k \in {"org_name", "parent_org", "label", "desc", "users",
                       "proxies", "subnets", "resources", "medias",
                       "templates", "domains", "envs", "hostgroups",
                       "locations"} |-> NoneV]
      [] f = "make_loc" ->
            ("edit" :> "False") @@ ("select" :> "True")
            @@ [k \in {"name", "parent", "users", "proxies", "subnets",
                       "resources", "medias", "templates", "domains",
                       "envs", "hostgroups", "organizations"} |-> NoneV]
      [] f = "make_product" ->
            ("create_sync_plan" :> "False")
            @@ [k \in {"name", "description", "sync_plan", "startdate",
                       "gpg_key", "sync_interval"} |-> NoneV]
      [] f = "make_gpgkey" ->
            ("upload_key" :> "False")
            @@ [k \in {"name", "key_path", "key_content"} |-> NoneV]
      [] f = "make_subnet" ->
            ("org_select" :> "False")
            @@ [k \in {"orgs", "subnet_name", "subnet_network",
                       "subnet_mask", "subnet_gateway", "subnet_primarydns",
                       "subnet_secondarydns"} |-> NoneV]
      [] f = "make_domain" ->
            [k \in {"name", "description", "dns_proxy"} |-> NoneV]
      [] f = "make_user" ->
            ("authorized_by" :> "INTERNAL") @@ ("edit" :> "False")
            @@ ("select" :> "True")
            @@ [k \in {"username", "email", "password1", "password2",
                       "locale", "first_name", "last_name", "roles",
                       "locations", "organizations"} |-> NoneV]
      [] f = "make_hostgroup" ->
            [k \in {"name", "parent", "environment"} |-> NoneV]
      [] f = "make_env" ->
            ("org_select" :> "False") @@ [k \in {"name", "orgs"} |-> NoneV]
      [] f = "make_resource" ->
            ("org_select" :> "False") @@ ("libvirt_set_passwd" :> "True")
            @@ [k \in {"name", "orgs", "description", "provider_type",
                       "url", "user", "password", "region",
                       "libvirt_display", "tenant"} |-> NoneV]
      [] f = "make_media" ->
            [k \in {"name", "path", "os_family"} |-> NoneV]
      [] f = "make_templates" ->
            [k \in {"name", "template_path", "custom_really",
                    "template_type", "snippet", "os_list"} |-> NoneV]
      [] f = "make_os" ->
            ("select" :> "True")
            @@ [k \in {"name", "major_version", "minor_version",
                       "description", "os_family", "archs", "ptables",
                       "mediums", "template"} |-> NoneV]
      [] f = "make_arch" -> [k \in {"name", "os_names"} |-> NoneV]
      [] f = "make_partitiontable" ->
            [k \in {"name", "layout", "os_family"} |-> NoneV]
      [] f = "make_puppetclasses" ->
            [k \in {"name", "environment"} |-> NoneV]
      [] f = "make_config_groups" -> [k \in {"name"} |-> NoneV]
      [] OTHER ->
            [k \in {"tab_locator", "param_name", "value_type",
                    "param_value"} |-> NoneV]

(* the page object whose create() the factory calls *)
UiPage(f) ==
    CASE f = "make_org" -> "Org"
      [] f = "make_loc" -> "Location"
      [] f = "make_product" -> "Products"
      [] f = "make_gpgkey" -> "GPGKey"
      [] f = "make_subnet" -> "Subnet"
      [] f = "make_domain" -> "Domain"
      [] f = "make_user" -> "User"
      [] f = "make_hostgroup" -> "Hostgroup"
      [] f = "make_env" -> "Environment"
      [] f = "make_resource" -> "ComputeResource"
      [] f = "make_media" -> "Medium"
      [] f = "make_templates" -> "Template"
      [] f = "make_os" -> "OperatingSys"
      [] f = "make_arch" -> "Architecture"
      [] f = "make_partitiontable" -> "PartitionTable"
      [] f = "make_puppetclasses" -> "PuppetClasses"
      [] f = "make_config_groups" -> "ConfigGroups"
      [] OTHER -> "Settings"

(* page = session.nav.go_to_...: the navigation the factory hands over *)
UiNav(f) ==
    CASE f = "make_org" -> "go_to_org"
      [] f = "make_loc" -> "go_to_loc"
      [] f = "make_product" -> "go_to_products"
      [] f = "make_gpgkey" -> "go_to_gpg_keys"
      [] f = "make_subnet" -> "go_to_subnets"
      [] f = "make_domain" -> "go_to_domains"
      [] f = "make_user" -> "go_to_users"
      [] f = "make_hostgroup" -> "go_to_host_groups"
      [] f = "make_env" -> "go_to_environments"
      [] f = "make_resource" -> "go_to_compute_resources"
      [] f = "make_media" -> "go_to_installation_media"
      [] f = "make_templates" -> "go_to_provisioning_templates"
      [] f = "make_os" -> "go_to_operating_systems"
      [] f = "make_arch" -> "go_to_architectures"
      [] f = "make_partitiontable" -> "go_to_partition_tables"
      [] f = "make_puppetclasses" -> "go_to_puppet_classes"
      [] f = "make_config_groups" -> "go_to_config_groups"
      [] OTHER -> "go_to_settings"

(* the method of the page object the factory ends with: create, but       *)
(* Settings(...).update in edit_param                                     *)
UiMethod(f) == IF f = "edit_param" THEN "update" ELSE "create"

(* the factories with the parameters org and loc: all but make_org and    *)
(* make_loc                                                               *)
TakesContext(f) == f \notin {"make_org", "make_loc"}

(* the factories with the parameter force_context *)
TakesForce(f) ==
    f \in {"make_org", "make_loc", "make_product", "make_gpgkey",
           "make_subnet", "make_domain", "make_user", "make_hostgroup",
           "make_env", "make_resource", "make_media", "make_templates"}

(* the force_context core_factory is called with: make_org passes the     *)
(* literal False, the factories without the parameter leave the default   *)
PassedForce(f, force) ==
    IF f = "make_org" \/ ~TakesForce(f) THEN FALSE ELSE force

(* the keyword arguments a modelled caller overrides: the key that names  *)
(* the object, one more declared key, and a key the factory does not      *)
(* declare                                                                *)
UiNameKey(f) ==
    CASE f = "make_org" -> "org_name"
      [] f = "make_subnet" -> "subnet_name"
      [] f = "make_user" -> "username"
      [] f = "edit_param" -> "param_name"
      [] OTHER -> "name"

UiOtherKey(f) ==
    CASE f \in {"make_org", "make_loc", "make_user"} -> "edit"
      [] f \in {"make_subnet", "make_env", "make_resource"} -> "org_select"
      [] f \in {"make_product", "make_domain"} -> "description"
      [] f = "make_gpgkey" -> "upload_key"
      [] f \in {"make_hostgroup", "make_puppetclasses"} -> "environment"
      [] f \in {"make_media", "make_os", "make_partitiontable"} ->
            "os_family"
      [] f = "make_templates" -> "template_type"
      [] f = "make_arch" -> "os_names"
      [] f = "edit_param" -> "param_value"
      [] OTHER -> "name"

UiKwargs(f) ==
    UNION {[S -> {NoneV, "u1"}] :
              S \in SUBSET {UiNameKey(f), UiOtherKey(f), "extra"}}

(* the values a modelled caller gives org and loc *)
ContextVals == {NoneV, "", "u1"}

(* the text of the element menu.current_text, as its characters *)
CurrentTexts == UNION {[1..n -> {"a", "@"}] : n \in 0..MaxTextLen}

(* '@' in str(current_text) *)
ContainsAt(text) == \E i \in DOMAIN text : text[i] = "@"

(* variant: the location is selected before the organization *)
set_context_calls_loc_first(text, o, l, force) ==
    <<Call("wait_until_element", "nav", EmptyDict)>>
    \o (IF ~ContainsAt(text) \/ force
        THEN (IF Truthy(l)
              THEN <<Call("go_to_select_loc", "nav", ("loc" :> l))>>
              ELSE <<>>)
             \o (IF Truthy(o)
                 THEN <<Call("go_to_select_org", "nav", ("org" :> o))>>
                 ELSE <<>>)
        ELSE <<>>)

(* set_context: the calls it makes on session.nav, in order *)
set_context_calls(text, o, l, force) ==
    <<Call("wait_until_element", "nav", EmptyDict)>>
    \o (IF ~ContainsAt(text) \/ force
        THEN (IF Truthy(o)
              THEN <<Call("go_to_select_org", "nav", ("org" :> o))>>
              ELSE <<>>)
             \o (IF Truthy(l)
                 THEN <<Call("go_to_select_loc", "nav", ("loc" :> l))>>
                 ELSE <<>>)
        ELSE <<>>)

(* the factory has not returned *)
NotReturned == PyStr("<not returned>")

UiIdle ==
    /\ ui_fn = ""
    /\ kwargs = EmptyDict
    /\ org = NoneV
    /\ loc = NoneV
    /\ force_context = FALSE
    /\ current_text = <<>>
    /\ create_args = EmptyDict
    /\ ui_pc = "idle"
    /\ ui_log = <<>>
    /\ ui_ret = NotReturned

(* ============== CLI factory calls a test driver makes in parallel ====== *)

(* how many factory calls run in parallel *)
NumCalls == 2

Callers == 1..NumCalls

(* strings generate_name() may return *)
Names == {"n1", "n2"}

(* ports random.randint(9191, 49090) may return, as text *)
Ports == {"9191", "49090"}

(* the factories called in parallel: a file-backed one and make_proxy *)
ParFactories == {"make_template", "make_proxy"}

(* the options of the modelled parallel calls *)
ParOptions(f) ==
    IF f = "make_template"
    THEN {None, Dict(("content" :> "c1")), Dict(("content" :> "c2")),
          Dict(("content" :> "c1") @@ ("name" :> "u1"))}
    ELSE {None, Dict(("name" :> "u1")), Dict(("url" :> "u1"))}

(* what the create calls of the parallel calls may return: a mapping, a   *)
(* mapping in a list, a failure                                           *)
ParResults ==
    {r \in Results :
        \/ r.return_code # 0 /\ r.stderr = <<"e">>
        \/ /\ r.return_code = 0
           /\ r.stdout \in {PyDict(("id" :> "1")),
                            PyList(<<PyDict(("id" :> "1"))>>)}}

(* the paths mkstemp() may return *)
TempPaths == {<<"~mkstemp", k>> : k \in Callers}

(* "/tmp/%s" % generate_name() *)
RemotePathOf(name) == "/tmp/" \o name

(* the URL default_url_on_new_port(9090, newport) yields *)
NewPortUrlOf(port) == "~default_url_on_new_port:" \o port

(* the locals of a call that was not made *)
NoCall ==
    [fn |-> "", options |-> None, options0 |-> None, pc |-> "idle",
     content |-> NoneV, layout |-> <<>>, remote |-> NoneV, port |-> NoneV,
     args |-> EmptyDict, submitted |-> EmptyDict, read |-> NoneV,
     result |-> NoResult, new_obj |-> PyNone, err |-> NoException]

(* write a file: the path holds the content, the other files are as before *)
WriteFile(files, file_path, text) == (file_path :> text) @@ files

ParIdle ==
    /\ par_call = <<>>
    /\ local_files = <<>>
    /\ remote_files = <<>>
    /\ tunnels = {}

(* ------------------------------- the call ------------------------------ *)

Init ==
    /\ fn \in Factories
    /\ options \in OptionSpace(fn)
    /\ options0 = options
    /\ pc = "call"
    /\ args = EmptyDict
    /\ key_filename = NoneV
    /\ tmpfile = NoneV
    /\ content = NoneV
    /\ upload_ok = TRUE
    /\ in_ctx = FALSE
    /\ log = <<>>
    /\ result = NoResult
    /\ new_obj = PyNone
    /\ err = NoException
    /\ OrmIdle
    /\ GraphIdle
    /\ UiIdle
    /\ ParIdle

(* the checks of the required options at the head of the factory *)
Validate ==
    /\ pc = "call"
    /\ IF ValidationError(fn, options) # NoError
       THEN /\ err' = CLIFactoryError(ValidationError(fn, options))
            /\ pc' = "raised"
       ELSE /\ pc' = "validated"
            /\ err' = err
    /\ UNCHANGED <<fn, options, options0, args, key_filename, tmpfile,
                   content, upload_ok, in_ctx, log, result, new_obj>>
    /\ UNCHANGED <<orm_vars, graph_vars, ui_vars, par_vars>>

(* make_gpg_key, from "Create a fake gpg key file" to ssh.upload_file *)
make_gpg_key_prepare ==
    /\ pc = "validated"
    /\ fn = "make_gpg_key"
    /\ IF ~Truthy(Get(options.d, "key"))
       THEN /\ tmpfile' = TempPath
            /\ key_filename' = TempPath
            /\ content' = GeneratedName
            /\ options' = options
       ELSE /\ key_filename' = options.d["key"]
            /\ options' = [options EXCEPT !.d = Pop(@, "key")]
            /\ UNCHANGED <<tmpfile, content>>
    /\ args' = make_gpg_key_args
    /\ log' = Append(log, UploadCall(key_filename', args'["key"]))
    /\ upload_ok' \in upload_file_results
    /\ pc' = "uploaded"
    /\ UNCHANGED <<fn, options0, in_ctx, result, new_obj, err>>
    /\ UNCHANGED <<orm_vars, graph_vars, ui_vars, par_vars>>

(* variant: the file is uploaded under the name of the local file *)
make_partition_table_prepare_local_name ==
    /\ pc = "validated"
    /\ fn = "make_partition_table"
    /\ options' = IF options.none THEN Dict(EmptyDict) ELSE options
    /\ tmpfile' = TempPath
    /\ LET text == GetDefault(options.d, "content",
                              "default ptable content")
       IN  IF text = NoneV
           THEN /\ err' = PythonError("TypeError")
                /\ pc' = "raised"
                /\ UNCHANGED <<args, key_filename, content, log, upload_ok>>
           ELSE /\ content' = text
                /\ key_filename' = TempPath
                /\ args' = make_partition_table_args
                /\ log' = Append(log, UploadCall(TempPath, TempPath))
                /\ upload_ok' \in upload_file_results
                /\ pc' = "uploaded"
                /\ err' = err
    /\ UNCHANGED <<fn, options0, in_ctx, result, new_obj>>
    /\ UNCHANGED <<orm_vars, graph_vars, ui_vars, par_vars>>

(* make_partition_table, from "if options is None" to ssh.upload_file;    *)
(* file.write(None) raises TypeError                                      *)
make_partition_table_prepare ==
    /\ pc = "validated"
    /\ fn = "make_partition_table"
    /\ options' = IF options.none THEN Dict(EmptyDict) ELSE options
    /\ tmpfile' = TempPath
    /\ LET text == GetDefault(options.d, "content",
                              "default ptable content")
       IN  IF text = NoneV
           THEN /\ err' = PythonError("TypeError")
                /\ pc' = "raised"
                /\ UNCHANGED <<args, key_filename, content, log, upload_ok>>
           ELSE /\ content' = text
                /\ key_filename' = TempPath
                /\ args' = make_partition_table_args
                /\ log' = Append(log, UploadCall(TempPath, args'["file"]))
                /\ upload_ok' \in upload_file_results
                /\ pc' = "uploaded"
                /\ err' = err
    /\ UNCHANGED <<fn, options0, in_ctx, result, new_obj>>
    /\ UNCHANGED <<orm_vars, graph_vars, ui_vars, par_vars>>

(* variant: "args['file'] = layout", the local path as the attribute *)
make_template_prepare_leak ==
    /\ pc = "validated"
    /\ fn = "make_template"
    /\ args' = SetItem(make_template_args, "file", TempPath)
    /\ LET given == ~options.none /\ "content" \in DOMAIN options.d
           text == IF given THEN options.d["content"] ELSE GeneratedName
       IN  /\ options' = IF given
                         THEN [options EXCEPT !.d = Pop(@, "content")]
                         ELSE options
           /\ tmpfile' = TempPath
           /\ IF text = NoneV
              THEN /\ err' = PythonError("TypeError")
                   /\ pc' = "raised"
                   /\ UNCHANGED <<key_filename, content, log, upload_ok>>
              ELSE /\ content' = text
                   /\ key_filename' = TempPath
                   /\ log' = Append(log, UploadCall(TempPath, RemotePath))
                   /\ upload_ok' \in upload_file_results
                   /\ pc' = "uploaded"
                   /\ err' = err
    /\ UNCHANGED <<fn, options0, in_ctx, result, new_obj>>
    /\ UNCHANGED <<orm_vars, graph_vars, ui_vars, par_vars>>

(* make_template, from "args = {" to ssh.upload_file *)
make_template_prepare ==
    /\ pc = "validated"
    /\ fn = "make_template"
    /\ args' = make_template_args
    /\ LET given == ~options.none /\ "content" \in DOMAIN options.d
           text == IF given THEN options.d["content"] ELSE GeneratedName
       IN  /\ options' = IF given
                         THEN [options EXCEPT !.d = Pop(@, "content")]
                         ELSE options
           /\ tmpfile' = TempPath
           /\ IF text = NoneV
              THEN /\ err' = PythonError("TypeError")
                   /\ pc' = "raised"
                   /\ UNCHANGED <<key_filename, content, log, upload_ok>>
              ELSE /\ content' = text
                   /\ key_filename' = TempPath
                   /\ log' = Append(log, UploadCall(TempPath, args'["file"]))
                   /\ upload_ok' \in upload_file_results
                   /\ pc' = "uploaded"
                   /\ err' = err
    /\ UNCHANGED <<fn, options0, in_ctx, result, new_obj>>
    /\ UNCHANGED <<orm_vars, graph_vars, ui_vars, par_vars>>

(* make_lifecycle_environment: options['prior'] = 'Library' when unset *)
PriorDefault(f, o) ==
    IF f = "make_lifecycle_environment" /\ ~Truthy(Get(o.d, "prior"))
    THEN [o EXCEPT !.d = SetItem(@, "prior", "Library")]
    ELSE o

(* make_compute_resource: the provider and url given when provider is None *)
ProviderDefault(f, a) ==
    IF f = "make_compute_resource" /\ a["provider"] = NoneV
    THEN LET b == SetItem(a, "provider", "~FOREMAN_PROVIDERS['libvirt']")
         IN  IF b["url"] = NoneV
             THEN SetItem(b, "url", "qemu+tcp://localhost:16509/system")
             ELSE b
    ELSE a

(* variant: a url that is None or empty counts as not given *)
UrlGiven_true_value(o) ==
    ~NotOptions(o) /\ "url" \in DOMAIN o.d /\ Truthy(o.d["url"])

(* make_proxy: "if options and 'url' in options" *)
UrlGiven(o) == ~NotOptions(o) /\ "url" \in DOMAIN o.d

(* variant: the defaults win over the caller's options *)
Materialize_defaults_win ==
    /\ \/ pc = "validated" /\ fn \notin FileBacked
       \/ pc = "uploaded"
    /\ options' = PriorDefault(fn, options)
    /\ LET base == IF fn \in FileBacked THEN args ELSE DefaultArgs(fn)
       IN  args' = ProviderDefault(fn, base @@ options'.d)
    /\ pc' = IF fn = "make_proxy" /\ ~UrlGiven(options)
             THEN "with" ELSE "ready"
    /\ UNCHANGED <<fn, options0, key_filename, tmpfile, content, upload_ok,
                   in_ctx, log, result, new_obj, err>>
    /\ UNCHANGED <<orm_vars, graph_vars, ui_vars, par_vars>>

(* variant: an option whose value is None is not laid over the default *)
Materialize_skip_none ==
    /\ \/ pc = "validated" /\ fn \notin FileBacked
       \/ pc = "uploaded"
    /\ options' = PriorDefault(fn, options)
    /\ LET base == IF fn \in FileBacked THEN args ELSE DefaultArgs(fn)
           given == {k \in DOMAIN options'.d : options'.d[k] # NoneV}
       IN  args' = ProviderDefault(fn, [k \in given |-> options'.d[k]] @@ base)
    /\ pc' = IF fn = "make_proxy" /\ ~UrlGiven(options)
             THEN "with" ELSE "ready"
    /\ UNCHANGED <<fn, options0, key_filename, tmpfile, content, upload_ok,
                   in_ctx, log, result, new_obj, err>>
    /\ UNCHANGED <<orm_vars, graph_vars, ui_vars, par_vars>>

(* "args = update_dictionary(args, options)" with what the factory does   *)
(* to options before it and to args after it                              *)
Materialize ==
    /\ \/ pc = "validated" /\ fn \notin FileBacked
       \/ pc = "uploaded"
    /\ options' = PriorDefault(fn, options)
    /\ LET base == IF fn \in FileBacked THEN args ELSE DefaultArgs(fn)
       IN  args' = ProviderDefault(fn, update_dictionary(base, options'))
    /\ pc' = IF fn = "make_proxy" /\ ~UrlGiven(options)
             THEN "with" ELSE "ready"
    /\ UNCHANGED <<fn, options0, key_filename, tmpfile, content, upload_ok,
                   in_ctx, log, result, new_obj, err>>
    /\ UNCHANGED <<orm_vars, graph_vars, ui_vars, par_vars>>

(* make_proxy: "with default_url_on_new_port(9090, newport) as url" *)
EnterContext ==
    /\ pc = "with"
    /\ in_ctx' = TRUE
    /\ log' = Append(log, Call("default_url_on_new_port", "enter", EmptyDict))
    /\ args' = SetItem(args, "url", NewPortUrl)
    /\ pc' = "ready"
    /\ UNCHANGED <<fn, options, options0, key_filename, tmpfile, content,
                   upload_ok, result, new_obj, err>>
    /\ UNCHANGED <<orm_vars, graph_vars, ui_vars, par_vars>>

(* leaving the with block, by return or by exception *)
ExitContext(l) ==
    IF in_ctx
    THEN Append(l, Call("default_url_on_new_port", "exit", EmptyDict))
    ELSE l

(* create_object: "result = cli_object.create(args)" *)
Submit ==
    /\ pc = "ready"
    /\ log' = Append(log, Call("create", CliObject(fn), args))
    /\ result' \in Results
    /\ pc' = "submitted"
    /\ UNCHANGED <<fn, options, options0, args, key_filename, tmpfile,
                   content, upload_ok, in_ctx, new_obj, err>>
    /\ UNCHANGED <<orm_vars, graph_vars, ui_vars, par_vars>>

(* create_object: "sleep_for_seconds(5)" *)
Sleep ==
    /\ pc = "submitted"
    /\ log' = Append(log, Call("sleep_for_seconds", "5", EmptyDict))
    /\ pc' = "slept"
    /\ UNCHANGED <<fn, options, options0, args, key_filename, tmpfile,
                   content, upload_ok, in_ctx, result, new_obj, err>>
    /\ UNCHANGED <<orm_vars, graph_vars, ui_vars, par_vars>>

(* variant: a failed create is submitted again *)
Check_retry ==
    /\ pc = "slept"
    /\ IF result.return_code # 0
       THEN /\ pc' = "ready"
            /\ UNCHANGED <<err, log, in_ctx, new_obj>>
       ELSE /\ new_obj' = Normalize(result.stdout)
            /\ pc' = "created"
            /\ UNCHANGED <<err, log, in_ctx>>
    /\ UNCHANGED <<fn, options, options0, args, key_filename, tmpfile,
                   content, upload_ok, result>>
    /\ UNCHANGED <<orm_vars, graph_vars, ui_vars, par_vars>>

(* variant: the return code is checked without waiting for the delay *)
Check_without_delay ==
    /\ pc \in {"submitted", "slept"}
    /\ IF result.return_code # 0
       THEN /\ err' = CreateError(CliObject(fn), args, result.stderr)
            /\ pc' = "raised"
            /\ log' = ExitContext(log)
            /\ in_ctx' = FALSE
            /\ new_obj' = new_obj
       ELSE /\ new_obj' = Normalize(result.stdout)
            /\ pc' = "created"
            /\ UNCHANGED <<err, log, in_ctx>>
    /\ UNCHANGED <<fn, options, options0, args, key_filename, tmpfile,
                   content, upload_ok, result>>
    /\ UNCHANGED <<orm_vars, graph_vars, ui_vars, par_vars>>

(* create_object: the return-code check, the unwrapping, the return *)
Check ==
    /\ pc = "slept"
    /\ IF result.return_code # 0
       THEN /\ err' = CreateError(CliObject(fn), args, result.stderr)
            /\ pc' = "raised"
            /\ log' = ExitContext(log)
            /\ in_ctx' = FALSE
            /\ new_obj' = new_obj
       ELSE /\ new_obj' = Normalize(result.stdout)
            /\ pc' = "created"
            /\ UNCHANGED <<err, log, in_ctx>>
    /\ UNCHANGED <<fn, options, options0, args, key_filename, tmpfile,
                   content, upload_ok, result>>
    /\ UNCHANGED <<orm_vars, graph_vars, ui_vars, par_vars>>

(* the factory: "args.update(create_object(...))" and "return args" *)
Merge ==
    /\ pc = "created"
    /\ IF UpdateError(new_obj) # ""
       THEN /\ err' = PythonError(UpdateError(new_obj))
            /\ pc' = "raised"
            /\ args' = args
       ELSE /\ args' = IF new_obj.t = "dict"
                       THEN Update(args, new_obj.d) ELSE args
            /\ pc' = "done"
            /\ err' = err
    /\ log' = ExitContext(log)
    /\ in_ctx' = FALSE
    /\ UNCHANGED <<fn, options, options0, key_filename, tmpfile, content,
                   upload_ok, result, new_obj>>
    /\ UNCHANGED <<orm_vars, graph_vars, ui_vars, par_vars>>

Next ==
    \/ Validate
    \/ make_gpg_key_prepare
    \/ make_partition_table_prepare
    \/ make_template_prepare
    \/ Materialize
    \/ EnterContext
    \/ Submit
    \/ Sleep
    \/ Check
    \/ Merge

Spec == Init /\ [][Next]_vars

(* ================ the model layer: one field's get_value() ============= *)

(* no factory call under consideration *)
CliIdle ==
    /\ fn = ""
    /\ options = None
    /\ options0 = None
    /\ pc = "idle"
    /\ args = EmptyDict
    /\ key_filename = NoneV
    /\ tmpfile = NoneV
    /\ content = NoneV
    /\ upload_ok = TRUE
    /\ in_ctx = FALSE
    /\ log = <<>>
    /\ result = NoResult
    /\ new_obj = PyNone
    /\ err = NoException

(* what a behaviour of SpecField leaves alone *)
not_field_vars ==
    <<cli_vars, path_vars, rel_vars, values_vars, graph_vars,
      ui_vars, par_vars>>

(* what a behaviour of SpecPath leaves alone *)
not_path_vars ==
    <<cli_vars, field_vars, rel_vars, values_vars, graph_vars,
      ui_vars, par_vars>>

(* what a behaviour of SpecRel leaves alone *)
not_rel_vars ==
    <<cli_vars, field_vars, path_vars, values_vars, graph_vars,
      ui_vars, par_vars>>

(* what a behaviour of SpecGraph leaves alone *)
not_graph_vars ==
    <<cli_vars, orm_vars,
      ui_vars, par_vars>>

(* what a behaviour of SpecValues leaves alone *)
not_values_vars ==
    <<cli_vars, field_vars, path_vars, rel_vars, graph_vars,
      ui_vars, par_vars>>

InitField ==
    /\ CliIdle
    /\ UiIdle
    /\ ParIdle
    /\ field \in FieldDecls
    /\ value = NotCalled
    /\ calls = 0
    /\ PathIdle
    /\ RelIdle
    /\ ValuesIdle
    /\ GraphIdle

(* one call field.get_value() *)
GetValue ==
    /\ calls < MaxCalls
    /\ value' \in get_value(field)
    /\ calls' = calls + 1
    /\ UNCHANGED <<field, not_field_vars>>

NextField ==
    \/ GetValue

SpecField == InitField /\ [][NextField]_vars

(* ===================== the model layer: Entity.path ==================== *)

InitPath ==
    /\ CliIdle
    /\ UiIdle
    /\ ParIdle
    /\ FieldIdle
    /\ server_url \in ServerUrls
    /\ entity \in [id : Ids, api_path : ApiPaths]
    /\ which = ""
    /\ path_result = NoPath
    /\ path_calls = 0
    /\ RelIdle
    /\ ValuesIdle
    /\ GraphIdle

(* entity.id = n, before path is called: path_result is then the path of  *)
(* the entity as it is                                                    *)
SetId ==
    /\ \E id \in Ids : entity' = [entity EXCEPT !.id = id]
    /\ entity' # entity
    /\ path_calls = 0
    /\ UNCHANGED <<server_url, which, path_result, path_calls,
                   not_path_vars>>

(* entity.path(which) *)
CallPath ==
    /\ path_calls < MaxCalls
    /\ \E w \in Selectors :
        /\ which' = w
        /\ path_result' = path(server_url, entity, w)
    /\ path_calls' = path_calls + 1
    /\ UNCHANGED <<server_url, entity, not_path_vars>>

NextPath ==
    \/ SetId
    \/ CallPath

SpecPath == InitPath /\ [][NextPath]_vars

(* ================ the model layer: a one-to-many field ================= *)

InitRel ==
    /\ CliIdle
    /\ UiIdle
    /\ ParIdle
    /\ FieldIdle
    /\ PathIdle
    /\ rel_field \in OneToManyDecls
    /\ rel_value = Unset
    /\ rel_held = Unset
    /\ rel_err = ""
    /\ rel_synth = NotCalled
    /\ ValuesIdle
    /\ GraphIdle

(* owner.pets = value *)
Assign ==
    /\ rel_value = Unset
    /\ \E obj \in Assigned :
        /\ rel_value' = obj
        /\ rel_held' = __set__(rel_field, rel_held, obj).held
        /\ rel_err' = __set__(rel_field, rel_held, obj).error
    /\ UNCHANGED <<rel_field, rel_synth, not_rel_vars>>

(* OwnerEntity.pets.get_value() *)
Synthesize ==
    /\ rel_synth = NotCalled
    /\ rel_synth' \in get_value(rel_field)
    /\ UNCHANGED <<rel_field, rel_value, rel_held, rel_err, not_rel_vars>>

NextRel ==
    \/ Assign
    \/ Synthesize

SpecRel == InitRel /\ [][NextRel]_vars

(* ================= the model layer: Entity.get_values ================== *)

InitValues ==
    /\ CliIdle
    /\ UiIdle
    /\ ParIdle
    /\ FieldIdle
    /\ PathIdle
    /\ RelIdle
    /\ ent_defaults \in DeclaredDefaults
    /\ ent_data \in InstanceData
    /\ values = NoValues
    /\ GraphIdle

(* entity.<field> = value, before get_values() is called *)
SetAttr ==
    /\ values = NoValues
    /\ \E f \in EntityFields : \E v \in FieldValues(f) :
           ent_data' = (f :> v) @@ ent_data
    /\ ent_data' # ent_data
    /\ UNCHANGED <<ent_defaults, values, not_values_vars>>

(* entity.get_values() *)
GetValues ==
    /\ values = NoValues
    /\ values' = get_values(ent_defaults, ent_data)
    /\ UNCHANGED <<ent_defaults, ent_data, not_values_vars>>

NextValues ==
    \/ SetAttr
    \/ GetValues

SpecValues == InitValues /\ [][NextValues]_vars

(* =================== scripts/graph_entities.py, a run ================== *)

InitGraph ==
    /\ CliIdle
    /\ UiIdle
    /\ ParIdle
    /\ OrmIdle
    /\ entities_ \in Schemas
    /\ graph_pc = "start"
    /\ graph_entity = ""
    /\ entities_seen = {}
    /\ fields_seen = {}
    /\ printed = <<>>

(* print('digraph dependencies {') *)
PrintOpen ==
    /\ graph_pc = "start"
    /\ printed' = Append(printed, OpenLine)
    /\ graph_pc' = "entities"
    /\ UNCHANGED <<entities_, graph_entity, entities_seen, fields_seen,
                   not_graph_vars>>

(* for entity_name, entity in entities_.items(): the next entity, in the   *)
(* order the dict gives                                                   *)
EnterEntity ==
    /\ graph_pc = "entities"
    /\ \E e \in DOMAIN entities_ \ entities_seen : graph_entity' = e
    /\ fields_seen' = {}
    /\ graph_pc' = "fields"
    /\ UNCHANGED <<entities_, entities_seen, printed, not_graph_vars>>

(* for field_name, field in entity.get_fields().items(): the next field,  *)
(* an edge printed when it is a relationship field                        *)
VisitField ==
    /\ graph_pc = "fields"
    /\ \E field_name \in DOMAIN entities_[graph_entity].fields \ fields_seen :
        LET fld == entities_[graph_entity].fields[field_name]
        IN  /\ fields_seen' = fields_seen \cup {field_name}
            /\ printed' = IF IsRelationship(fld)
                         THEN Append(printed,
                                     EdgeLine(graph_entity, field_name, fld))
                         ELSE printed
    /\ UNCHANGED <<entities_, graph_pc, graph_entity, entities_seen,
                   not_graph_vars>>

(* variant: every entity gets the dotted node line, factory or not *)
LeaveEntity_dotted_always ==
    /\ graph_pc = "fields"
    /\ fields_seen = DOMAIN entities_[graph_entity].fields
    /\ printed' = Append(printed, NodeLine(graph_entity))
    /\ entities_seen' = entities_seen \cup {graph_entity}
    /\ graph_pc' = "entities"
    /\ UNCHANGED <<entities_, graph_entity, fields_seen, not_graph_vars>>

(* after the fields: "if not issubclass(entity, factory.Factory)" *)
LeaveEntity ==
    /\ graph_pc = "fields"
    /\ fields_seen = DOMAIN entities_[graph_entity].fields
    /\ printed' = IF ~entities_[graph_entity].factory
                 THEN Append(printed, NodeLine(graph_entity))
                 ELSE printed
    /\ entities_seen' = entities_seen \cup {graph_entity}
    /\ graph_pc' = "entities"
    /\ UNCHANGED <<entities_, graph_entity, fields_seen, not_graph_vars>>

(* print('}') once every entity was handled *)
PrintClose ==
    /\ graph_pc = "entities"
    /\ entities_seen = DOMAIN entities_
    /\ printed' = Append(printed, CloseLine)
    /\ graph_pc' = "done"
    /\ UNCHANGED <<entities_, graph_entity, entities_seen, fields_seen,
                   not_graph_vars>>

NextGraph ==
    \/ PrintOpen
    \/ EnterEntity
    \/ VisitField
    \/ LeaveEntity
    \/ PrintClose

SpecGraph == InitGraph /\ [][NextGraph]_vars

(* ================= robottelo/ui/factory.py, one factory call ============ *)

(* what a behaviour of SpecUi leaves alone *)
not_ui_vars == <<cli_vars, orm_vars, graph_vars, par_vars>>

InitUi ==
    /\ CliIdle
    /\ OrmIdle
    /\ GraphIdle
    /\ ParIdle
    /\ ui_fn \in UiFactories
    /\ kwargs \in UiKwargs(ui_fn)
    /\ org \in (IF TakesContext(ui_fn) THEN ContextVals ELSE {NoneV})
    /\ loc \in (IF TakesContext(ui_fn) THEN ContextVals ELSE {NoneV})
    /\ force_context \in (IF TakesForce(ui_fn) THEN BOOLEAN ELSE {FALSE})
    /\ current_text \in CurrentTexts
    /\ create_args = EmptyDict
    /\ ui_pc = "call"
    /\ ui_log = <<>>
    /\ ui_ret = NotReturned

(* the factory, up to the call of core_factory: "create_args = {...}" and *)
(* "page = session.nav.go_to_..."                                         *)
make_create_args ==
    /\ ui_pc = "call"
    /\ create_args' = UiCreateArgs(ui_fn)
    /\ ui_pc' = "core_factory"
    /\ UNCHANGED <<ui_fn, kwargs, org, loc, force_context, current_text,
                   ui_log, ui_ret, not_ui_vars>>

(* variant: the overrides are laid over a copy of the dictionary, the     *)
(* factory's own is left as it was                                        *)
core_factory_update_copy ==
    /\ ui_pc = "core_factory"
    /\ create_args' = create_args
    /\ ui_pc' = IF Truthy(org) \/ Truthy(loc) THEN "set_context" ELSE "page"
    /\ UNCHANGED <<ui_fn, kwargs, org, loc, force_context, current_text,
                   ui_log, ui_ret, not_ui_vars>>

(* core_factory: "create_args = update_dictionary(create_args, kwargs)",  *)
(* which hands back the dictionary it was given, updated, and             *)
(* "create_args.update(kwargs)" on that same dictionary, the factory's    *)
core_factory_update ==
    /\ ui_pc = "core_factory"
    /\ LET updated == update_dictionary(create_args, Dict(kwargs))
       IN  create_args' = Update(updated, kwargs)
    /\ ui_pc' = IF Truthy(org) \/ Truthy(loc) THEN "set_context" ELSE "page"
    /\ UNCHANGED <<ui_fn, kwargs, org, loc, force_context, current_text,
                   ui_log, ui_ret, not_ui_vars>>

(* core_factory: "if org or loc: set_context(session, org=org, loc=loc,   *)
(* force_context=force_context)"                                          *)
set_context ==
    /\ ui_pc = "set_context"
    /\ ui_log' = ui_log \o
                 set_context_calls(current_text, org, loc,
                                   PassedForce(ui_fn, force_context))
    /\ ui_pc' = "page"
    /\ UNCHANGED <<ui_fn, kwargs, org, loc, force_context, current_text,
                   create_args, ui_ret, not_ui_vars>>

(* core_factory: "page()" *)
page ==
    /\ ui_pc = "page"
    /\ ui_log' = Append(ui_log, Call(UiNav(ui_fn), "nav", EmptyDict))
    /\ ui_pc' = "create"
    /\ UNCHANGED <<ui_fn, kwargs, org, loc, force_context, current_text,
                   create_args, ui_ret, not_ui_vars>>

(* variant: the factory returns the dictionary it handed to create() *)
create_returns_args ==
    /\ ui_pc = "create"
    /\ ui_log' = Append(ui_log,
                        Call(UiMethod(ui_fn), UiPage(ui_fn), create_args))
    /\ \/ ui_pc' = "returned" /\ ui_ret' = PyDict(create_args)
       \/ ui_pc' = "raised" /\ ui_ret' = ui_ret
    /\ UNCHANGED <<ui_fn, kwargs, org, loc, force_context, current_text,
                   create_args, not_ui_vars>>

(* the factory's last statement, the page object's create() called with   *)
(* the keywords of create_args: it returns, and the factory, which has no *)
(* return statement, returns None; or it raises                           *)
create ==
    /\ ui_pc = "create"
    /\ ui_log' = Append(ui_log,
                        Call(UiMethod(ui_fn), UiPage(ui_fn), create_args))
    /\ \/ ui_pc' = "returned" /\ ui_ret' = PyNone
       \/ ui_pc' = "raised" /\ ui_ret' = ui_ret
    /\ UNCHANGED <<ui_fn, kwargs, org, loc, force_context, current_text,
                   create_args, not_ui_vars>>

NextUi ==
    \/ make_create_args
    \/ core_factory_update
    \/ set_context
    \/ page
    \/ create

SpecUi == InitUi /\ [][NextUi]_vars

(* ============ a factory call of either backend, CLI or UI ============== *)

InitBackends == Init \/ InitUi

NextBackends == Next \/ NextUi

SpecBackends == InitBackends /\ [][NextBackends]_vars

(* ============== cli/factory.py, factory calls made in parallel ========= *)

(* what a behaviour of SpecPar leaves alone *)
not_par_vars == <<cli_vars, orm_vars, graph_vars, ui_vars>>

(* the locals of call i become c; the other calls keep theirs *)
SetCall(i, c) == par_call' = [par_call EXCEPT ![i] = c]

(* the tunnels without the one of call i *)
CloseTunnel(i) == {t \in tunnels : t[1] # i}

InitPar ==
    /\ CliIdle
    /\ OrmIdle
    /\ GraphIdle
    /\ UiIdle
    /\ par_call \in
          [Callers ->
              UNION {{[NoCall EXCEPT !.fn = f, !.options = o,
                                     !.options0 = o, !.pc = "call"] :
                         o \in ParOptions(f)} : f \in ParFactories}]
    /\ local_files = <<>>
    /\ remote_files = <<>>
    /\ tunnels = {}

(* make_template, "args = {...}" with its generated remote path and the   *)
(* content, popped from the options or generated                          *)
par_make_template_args(i) ==
    LET c == par_call[i]
        given == ~c.options.none /\ "content" \in DOMAIN c.options.d
    IN  /\ c.pc = "call"
        /\ c.fn = "make_template"
        /\ \E name \in Names, generated \in Names :
              SetCall(i, [c EXCEPT
                  !.remote = RemotePathOf(name),
                  !.args = SetItem(make_template_args, "file",
                                   RemotePathOf(name)),
                  !.content = IF given THEN c.options.d["content"]
                              ELSE generated,
                  !.options = IF given
                              THEN [c.options EXCEPT !.d = Pop(@, "content")]
                              ELSE c.options,
                  !.pc = "mkstemp"])
        /\ UNCHANGED <<local_files, remote_files, tunnels, not_par_vars>>

(* make_template, "(file_handle, layout) = mkstemp(text=True)" up to      *)
(* "ptable.write(content)": mkstemp makes a file that did not exist       *)
par_mkstemp(i) ==
    LET c == par_call[i]
    IN  /\ c.pc = "mkstemp"
        /\ \E layout \in TempPaths \ DOMAIN local_files :
              /\ SetCall(i, [c EXCEPT !.layout = layout, !.pc = "upload"])
              /\ local_files' = WriteFile(local_files, layout, c.content)
        /\ UNCHANGED <<remote_files, tunnels, not_par_vars>>

(* make_template, "ssh.upload_file(local_file=layout,                     *)
(* remote_file=args['file'])"                                             *)
par_upload(i) ==
    LET c == par_call[i]
    IN  /\ c.pc = "upload"
        /\ remote_files' = WriteFile(remote_files, c.args["file"],
                                     local_files[c.layout])
        /\ SetCall(i, [c EXCEPT !.pc = "overlay"])
        /\ UNCHANGED <<local_files, tunnels, not_par_vars>>

(* "args = update_dictionary(args, options)", in make_proxy with          *)
(* "args = {...}" before it and "if options and 'url' in options" after   *)
par_update_dictionary(i) ==
    LET c == par_call[i]
        base == IF c.fn = "make_proxy" THEN make_proxy_args ELSE c.args
    IN  /\ \/ c.pc = "overlay"
           \/ c.pc = "call" /\ c.fn = "make_proxy"
        /\ SetCall(i, [c EXCEPT
               !.args = update_dictionary(base, c.options),
               !.pc = IF c.fn = "make_proxy" /\ ~UrlGiven(c.options)
                      THEN "with" ELSE "ready"])
        /\ UNCHANGED <<local_files, remote_files, tunnels, not_par_vars>>

(* make_proxy, "newport = random.randint(9191, 49090)" and "with          *)
(* default_url_on_new_port(9090, newport) as url: args['url'] = url"      *)
par_enter(i) ==
    LET c == par_call[i]
    IN  /\ c.pc = "with"
        /\ \E newport \in Ports :
              /\ SetCall(i, [c EXCEPT
                     !.port = newport,
                     !.args = SetItem(c.args, "url", NewPortUrlOf(newport)),
                     !.pc = "ready"])
              /\ tunnels' = tunnels \cup {<<i, newport>>}
        /\ UNCHANGED <<local_files, remote_files, not_par_vars>>

(* create_object, "result = cli_object.create(args)": the backend reads   *)
(* the file the attribute 'file' names                                    *)
par_create(i) ==
    LET c == par_call[i]
        named == IF "file" \in DOMAIN c.args THEN c.args["file"] ELSE NoneV
    IN  /\ c.pc = "ready"
        /\ \E r \in ParResults :
              SetCall(i, [c EXCEPT
                  !.submitted = c.args,
                  !.read = IF named \in DOMAIN remote_files
                           THEN remote_files[named] ELSE NoneV,
                  !.result = r,
                  !.pc = "submitted"])
        /\ UNCHANGED <<local_files, remote_files, tunnels, not_par_vars>>

(* create_object, "sleep_for_seconds(5)" *)
par_sleep(i) ==
    LET c == par_call[i]
    IN  /\ c.pc = "submitted"
        /\ SetCall(i, [c EXCEPT !.pc = "slept"])
        /\ UNCHANGED <<local_files, remote_files, tunnels, not_par_vars>>

(* create_object, the return-code check, the unwrapping, the return; the  *)
(* exception leaves the with block of make_proxy                          *)
par_check(i) ==
    LET c == par_call[i]
    IN  /\ c.pc = "slept"
        /\ IF c.result.return_code # 0
           THEN /\ SetCall(i, [c EXCEPT
                       !.err = CreateError(CliObject(c.fn), c.args,
                                           c.result.stderr),
                       !.pc = "raised"])
                /\ tunnels' = CloseTunnel(i)
           ELSE /\ SetCall(i, [c EXCEPT
                       !.new_obj = Normalize(c.result.stdout),
                       !.pc = "created"])
                /\ tunnels' = tunnels
        /\ UNCHANGED <<local_files, remote_files, not_par_vars>>

(* the factory, "args.update(create_object(...))", the end of the with    *)
(* block of make_proxy, "return args"                                     *)
par_return(i) ==
    LET c == par_call[i]
    IN  /\ c.pc = "created"
        /\ IF UpdateError(c.new_obj) # ""
           THEN SetCall(i, [c EXCEPT
                    !.err = PythonError(UpdateError(c.new_obj)),
                    !.pc = "raised"])
           ELSE SetCall(i, [c EXCEPT
                    !.args = IF c.new_obj.t = "dict"
                             THEN Update(c.args, c.new_obj.d) ELSE c.args,
                    !.pc = "done"])
        /\ tunnels' = CloseTunnel(i)
        /\ UNCHANGED <<local_files, remote_files, not_par_vars>>

NextPar ==
    \E i \in Callers :
        \/ par_make_template_args(i)
        \/ par_mkstemp(i)
        \/ par_upload(i)
        \/ par_update_dictionary(i)
        \/ par_enter(i)
        \/ par_create(i)
        \/ par_sleep(i)
        \/ par_check(i)
        \/ par_return(i)

SpecPar == InitPar /\ [][NextPar]_vars

(* ====================== properties of the factories ==================== *)

(* the backend create calls made so far *)
CreateCalls == SelectSeq(log, LAMBDA c : c.op = "create")

HasCreate == CreateCalls # <<>>

(* the attribute mapping handed to the backend create call *)
SubmittedArgs == CreateCalls[1].a

(* the keys of the caller's options *)
Supplied == DOMAIN options0.d

(* C1, as stated: for every factory and every key the caller supplies,    *)
(* the mapping submitted to the backend holds the caller's value.         *)
C1_ExplicitAlwaysWins ==
    HasCreate =>
        \A k \in Supplied :
            k \in DOMAIN SubmittedArgs /\ SubmittedArgs[k] = options0.d[k]

(* the supplied options a factory consumes or replaces by intent *)
C1_Consumed(f, k, d) ==
    \/ f = "make_gpg_key" /\ k = "key" /\ Truthy(d[k])
    \/ f = "make_template" /\ k = "content"
    \/ f = "make_lifecycle_environment" /\ k = "prior" /\ ~Truthy(d[k])
    \/ f = "make_compute_resource" /\ k = "provider" /\ d[k] = NoneV
    \/ /\ f = "make_compute_resource" /\ k = "url" /\ d[k] = NoneV
       /\ Get(d, "provider") = NoneV

(* C1, amended: the submitted mapping holds the caller's value for every  *)
(* supplied key, except a true 'key' of make_gpg_key (the local file; the *)
(* remote path is submitted), 'content' of make_template (written to the  *)
(* file, not submitted), a false 'prior' of make_lifecycle_environment    *)
(* ('Library' is submitted) and a None 'provider', and with it a None     *)
(* 'url', of make_compute_resource (the libvirt defaults are submitted).  *)
C1_ExplicitWinsUnlessConsumed ==
    HasCreate =>
        \A k \in Supplied :
            \/ C1_Consumed(fn, k, options0.d)
            \/ k \in DOMAIN SubmittedArgs /\ SubmittedArgs[k] = options0.d[k]

C1_Witness ==
    /\ HasCreate
    /\ fn = "make_gpg_key"
    /\ "name" \in Supplied
    /\ options0.d["name"] = "u1"
    /\ SubmittedArgs["name"] = "u1"
    /\ DefaultArgs(fn)["name"] # "u1"

(* the factories that check required options *)
C2_PolicyFactories ==
    {"make_activation_key", "make_content_view", "make_gpg_key",
     "make_product", "make_repository", "make_sync_plan",
     "make_content_host", "make_host", "make_host_collection",
     "make_lifecycle_environment"}

(* the required groups of a factory: one key of each must be given *)
C2_Groups(f) ==
    CASE f \in {"make_content_view", "make_gpg_key", "make_product",
                "make_sync_plan", "make_host_collection",
                "make_lifecycle_environment"} -> {{"organization-id"}}
      [] f = "make_repository" -> {{"product-id"}}
      [] f = "make_activation_key" ->
            {{"organization", "organization-id", "organization-label"}}
      [] f = "make_content_host" ->
            {{"organization", "organization-id", "organization-label"},
             {"content-view", "content-view-id"},
             {"lifecycle-environment", "lifecycle-environment-id"}}
      [] f = "make_host" ->
            {{"architecture-id"}, {"domain-id"}, {"environment-id"},
             {"medium-id"}, {"operatingsystem-id"}, {"partition-table-id"},
             {"puppet-proxy-id"}}
      [] OTHER -> {}

(* a key is given: make_host asks for a value that is not None, the other *)
(* factories for a true value                                             *)
C2_Given(f, o, k) ==
    /\ ~o.none
    /\ k \in DOMAIN o.d
    /\ IF f = "make_host" THEN o.d[k] # NoneV ELSE Truthy(o.d[k])

C2_Satisfied(f, o) == \A g \in C2_Groups(f) : \E k \in g : C2_Given(f, o, k)

(* C2: a factory with a required-field policy, called with options that   *)
(* do not satisfy it, raises CLIFactoryError and has made no upload and   *)
(* no create call (no call to any collaborator) when it does.             *)
C2_FailsFast ==
    (fn \in C2_PolicyFactories /\ ~C2_Satisfied(fn, options0)) =>
        /\ pc \in {"call", "raised"}
        /\ log = <<>>
        /\ pc = "raised" => err.type = "CLIFactoryError"

C2_Witness ==
    /\ fn = "make_gpg_key"
    /\ options0 = Dict(("organization-id" :> NoneV) @@ ("key" :> "u1"))
    /\ pc = "raised"
    /\ err.type = "CLIFactoryError"
    /\ log = <<>>

(* the positions of a text at which a line starts *)
C3_LineStarts(d) == {1} \cup {i + 1 : i \in {j \in DOMAIN d : d[j] = NL}}

C3_IndentPositions(d) == UNION {{i, i + 1} : i \in C3_LineStarts(d)}

(* the text d without the characters at the positions in drop *)
RECURSIVE C3_Without(_, _, _)
C3_Without(d, drop, i) ==
    IF i > Len(d) THEN <<>>
    ELSE (IF i \in drop THEN <<>> ELSE <<d[i]>>) \o C3_Without(d, drop, i + 1)

(* d is text with two spaces put before each of its lines *)
C3_EveryLineIndented(d, text) ==
    /\ C3_IndentPositions(d) \subseteq DOMAIN d
    /\ \A i \in C3_IndentPositions(d) : d[i] = " "
    /\ C3_Without(d, C3_IndentPositions(d), 1) = text

(* C3: when the backend create call returns a non-zero return code,       *)
(* create_object returns no value and raises CLIFactoryError, whose       *)
(* message is formatted from the entity type name, the attribute mapping  *)
(* that was submitted and stderr with every line indented by two spaces.  *)
C3_FailureRaises ==
    result.return_code # 0 =>
        /\ pc \in {"submitted", "slept", "raised"}
        /\ new_obj = PyNone
        /\ pc = "raised" =>
              /\ err.type = "CLIFactoryError"
              /\ err.name = CliObject(fn)
              /\ err.args = SubmittedArgs
              /\ C3_EveryLineIndented(err.diag, result.stderr)

C3_Witness ==
    /\ pc = "raised"
    /\ result.return_code # 0
    /\ result.stderr = <<"e", NL>>
    /\ err.diag = <<" ", " ", "e", NL, " ", " ">>
    /\ err.name = "Architecture"

(* create_object has returned *)
Created == pc \in {"created", "done"}

C4_SingletonMapping(stdout) ==
    stdout.t = "list" /\ Len(stdout.l) = 1 /\ stdout.l[1].t = "dict"

(* C4, as stated: on success create_object returns the contained mapping  *)
(* exactly when stdout is a one-element list wrapping a mapping, and      *)
(* every other stdout unchanged.                                          *)
C4_UnwrapsOnlySingletonMapping ==
    Created =>
        new_obj = IF C4_SingletonMapping(result.stdout)
                  THEN result.stdout.l[1] ELSE result.stdout

(* C4, amended: on success create_object returns the first element of     *)
(* stdout whenever stdout is a non-empty list, whatever its length and    *)
(* whatever the element is; a mapping and an empty list are returned      *)
(* unchanged.                                                             *)
C4_UnwrapsFirstOfNonEmptyList ==
    Created =>
        /\ result.stdout.t = "dict" => new_obj = result.stdout
        /\ result.stdout = PyList(<<>>) => new_obj = result.stdout
        /\ (result.stdout.t = "list" /\ result.stdout.l # <<>>) =>
               new_obj = Head(result.stdout.l)

C4_Witness ==
    /\ pc = "created"
    /\ result.stdout.t = "list"
    /\ Len(result.stdout.l) = 2
    /\ result.stdout.l[1] # result.stdout.l[2]
    /\ new_obj = result.stdout.l[1]

(* C5: a successful create_object whose stdout is the one-element list    *)
(* [m] returns what one whose stdout is the mapping m returns: m.         *)
C5_UnwrapIdempotent ==
    \A m \in Mappings :
        (Created /\ result.stdout \in {PyDict(m), PyList(<<PyDict(m)>>)}) =>
            new_obj = PyDict(m)

C5_Witness ==
    /\ pc = "created"
    /\ \E m \in Mappings :
          /\ "name" \in DOMAIN m
          /\ result.stdout = PyList(<<PyDict(m)>>)
          /\ new_obj = PyDict(m)

C7_NoneAlwaysPreserved ==
    HasCreate =>
        \A k \in Supplied :
            options0.d[k] = NoneV =>
                k \in DOMAIN SubmittedArgs /\ SubmittedArgs[k] = NoneV

(* C7, amended: an option given as None is submitted as None, except      *)
(* 'provider' of make_compute_resource and, where the provider is None    *)
(* or not given, its 'url' (the libvirt defaults are submitted), and      *)
(* 'prior' of make_lifecycle_environment ('Library' is submitted).        *)
C7_NonePreservedUnlessDefaulted ==
    HasCreate =>
        \A k \in Supplied :
            options0.d[k] = NoneV =>
                \/ fn = "make_compute_resource" /\ k = "provider"
                \/ /\ fn = "make_compute_resource" /\ k = "url"
                   /\ Get(options0.d, "provider") = NoneV
                \/ fn = "make_lifecycle_environment" /\ k = "prior"
                \/ k \in DOMAIN SubmittedArgs /\ SubmittedArgs[k] = NoneV

C7_Witness ==
    /\ HasCreate
    /\ fn = "make_gpg_key"
    /\ "name" \in Supplied
    /\ options0.d["name"] = NoneV
    /\ SubmittedArgs["name"] = NoneV
    /\ DefaultArgs(fn)["name"] # NoneV

(* the keys of a group given with a true value *)
C8_GivenKeys(o, group) == {k \in group : Truthy(Get(o.d, k))}

C8_Org == {"organization", "organization-id", "organization-label"}

C8_ContentView == {"content-view", "content-view-id"}

C8_Lifecycle == {"lifecycle-environment", "lifecycle-environment-id"}

(* the messages that name a group *)
C8_Names(msg, group) ==
    CASE group = C8_Org ->
            msg \in {"Please provide a valid Organization.",
                     "Please provide a valid organization field."}
      [] group = C8_ContentView ->
            msg = "Please provide one of content-view, content-view-id."
      [] group = C8_Lifecycle ->
            msg = "Please provide one of lifecycle-environment, "
                  \o "lifecycle-environment-id."

(* the call failed in the checks of the required options *)
C8_Rejected == pc = "raised" /\ log = <<>> /\ err.type = "CLIFactoryError"

C8_GroupsOf(f) ==
    IF f = "make_activation_key" THEN {C8_Org}
    ELSE {C8_Org, C8_ContentView, C8_Lifecycle}

(* C8, as stated: make_activation_key passes validation when exactly one  *)
(* organization key is given; make_content_host passes only when each of  *)
(* its three groups has a given key; and when a group has none, the       *)
(* factory fails with a CLIFactoryError whose message names that group.   *)
C8_MessageNamesEveryEmptyGroup ==
    (fn \in {"make_activation_key", "make_content_host"} /\ pc # "call") =>
        /\ (fn = "make_activation_key"
            /\ Cardinality(C8_GivenKeys(options0, C8_Org)) = 1)
              => ~C8_Rejected
        /\ (fn = "make_content_host" /\ ~C8_Rejected) =>
              \A g \in C8_GroupsOf(fn) : C8_GivenKeys(options0, g) # {}
        /\ \A g \in C8_GroupsOf(fn) :
              C8_GivenKeys(options0, g) = {} =>
                  C8_Rejected /\ C8_Names(err.msg, g)

(* the groups in the order make_content_host checks them *)
C8_Order == <<C8_Org, C8_ContentView, C8_Lifecycle>>

(* C8, amended: as stated, but the message names the first group, in the  *)
(* order organization, content-view, lifecycle-environment, that has no   *)
(* given key, and make_content_host called with None or {} fails with     *)
(* 'Please provide required parameters', which names no group.            *)
C8_MessageNamesFirstEmptyGroup ==
    (fn \in {"make_activation_key", "make_content_host"} /\ pc # "call") =>
        /\ (fn = "make_activation_key"
            /\ Cardinality(C8_GivenKeys(options0, C8_Org)) = 1)
              => ~C8_Rejected
        /\ (fn = "make_content_host" /\ ~C8_Rejected) =>
              \A g \in C8_GroupsOf(fn) : C8_GivenKeys(options0, g) # {}
        /\ \A i \in DOMAIN C8_Order :
              (/\ C8_Order[i] \in C8_GroupsOf(fn)
               /\ C8_GivenKeys(options0, C8_Order[i]) = {}
               /\ \A j \in 1..(i - 1) :
                     C8_GivenKeys(options0, C8_Order[j]) # {}) =>
                  /\ C8_Rejected
                  /\ IF fn = "make_content_host" /\ NotOptions(options0)
                     THEN err.msg = "Please provide required parameters"
                     ELSE C8_Names(err.msg, C8_Order[i])

C8_Witness ==
    /\ fn = "make_content_host"
    /\ C8_GivenKeys(options0, C8_Org) = {"organization-label"}
    /\ C8_GivenKeys(options0, C8_ContentView) = {}
    /\ C8_GivenKeys(options0, C8_Lifecycle) = {}
    /\ C8_Rejected
    /\ C8_Names(err.msg, C8_ContentView)

(* C9: a factory call invokes the backend create at most once, and once   *)
(* a create has failed the call is over: it has raised, with that one     *)
(* create call made.                                                      *)
C9_NoRetry ==
    /\ Len(CreateCalls) <= 1
    /\ (result.return_code # 0 /\ pc \notin {"submitted", "slept"}) =>
           pc = "raised" /\ Len(CreateCalls) = 1

C9_Witness ==
    /\ pc = "raised"
    /\ result.return_code # 0
    /\ Len(CreateCalls) = 1
    /\ log[Len(log)].op = "sleep_for_seconds"

(* C10: in the file-backed factories the path of the temporary file is    *)
(* no value of the attribute mapping submitted to the backend.            *)
C10_TempPathNotSubmitted ==
    (fn \in FileBacked /\ tmpfile # NoneV) =>
        \A i \in DOMAIN CreateCalls :
            \A k \in DOMAIN CreateCalls[i].a : CreateCalls[i].a[k] # tmpfile

C10_Witness ==
    /\ fn = "make_gpg_key"
    /\ HasCreate
    /\ tmpfile = TempPath
    /\ key_filename = tmpfile
    /\ "key" \in Supplied
    /\ log[1] = UploadCall(tmpfile, RemotePath)

(* ================= properties of the file-backed factories ============= *)

(* C11, as stated: in the file-backed factories, when the file transfer   *)
(* reports failure the backend create call is never made and the caller   *)
(* receives an error, no result mapping.                                  *)
C11_FailedUploadAborts ==
    (fn \in FileBacked /\ pc \notin {"call", "validated"} /\ ~upload_ok) =>
        /\ ~HasCreate
        /\ pc # "done"

(* ===================== properties of the model layer =================== *)

(* the call get_value() was made on the field *)
Called == calls > 0

HasDefault == "default" \in DOMAIN field.options

HasChoices == "choices" \in DOMAIN field.options

(* C12, as stated: for every field type with a declared fixed default,    *)
(* get_value() returns exactly that default on every call.                *)
C12_DefaultAlwaysReturned ==
    (Called /\ HasDefault) => value = field.options["default"]

(* C12, amended: for every field type whose get_value() goes through      *)
(* _get_value (Boolean, Email, Float, Integer, String, IPAddress,         *)
(* MACAddress and URL fields), a declared default is returned by every    *)
(* call, whatever the choice set and the generator.                       *)
C12_DefaultReturnedByValueFields ==
    (Called /\ HasDefault /\ field.type \in ValueFields) =>
        value = field.options["default"]

C12_Witness ==
    /\ calls = MaxCalls
    /\ field.type = "StringField"
    /\ HasDefault
    /\ HasChoices
    /\ field.options["default"] \notin field.options["choices"]
    /\ value = field.options["default"]

(* C13, as stated: for every field type with a declared choice set and no *)
(* fixed default, every value get_value() returns is one of the choices.  *)
C13_ChoiceAlwaysReturned ==
    (Called /\ HasChoices /\ ~HasDefault) =>
        value \in field.options["choices"]

(* C13, amended: for every field type whose get_value() goes through      *)
(* _get_value, with a declared choice set and no default, every value     *)
(* get_value() returns is one of the choices.                             *)
C13_ChoiceReturnedByValueFields ==
    (Called /\ HasChoices /\ ~HasDefault /\ field.type \in ValueFields) =>
        value \in field.options["choices"]

C13_Witness ==
    /\ calls = MaxCalls
    /\ field.type = "IntegerField"
    /\ ~HasDefault
    /\ HasChoices
    /\ Cardinality(field.options["choices"]) > 1
    /\ value \in field.options["choices"]

(* the value is a string of more than n characters *)
LongerThan(v, n) == v.t = "str" /\ v.n > n

(* C14, as stated: for StringField and its IP-address, MAC-address and    *)
(* URL subclasses, with or without a default or choices, get_value()      *)
(* never returns a value longer than max_len.                             *)
C14_NeverLongerThanMaxLen ==
    (Called /\ field.type \in StringFields) =>
        ~LongerThan(value, field.max_len)

(* C14, amended: a StringField proper with neither a declared default nor *)
(* a declared choice set returns a string of 1 to max_len characters.     *)
C14_GeneratedStringWithinMaxLen ==
    (Called /\ field.type = "StringField" /\ ~HasDefault /\ ~HasChoices) =>
        /\ value.t = "str"
        /\ value.n \in 1..field.max_len

C14_Witness ==
    /\ Called
    /\ field.type = "StringField"
    /\ ~HasDefault
    /\ ~HasChoices
    /\ field.max_len = MaxFieldLen
    /\ value.n = field.max_len

PathCalled == path_calls > 0

(* the path of all entities of the entity's type *)
CollectionPath == path(server_url, entity, "all")

(* C15: with id unset, path() returns what path('all') returns; with id   *)
(* set, path() returns what path('this') returns, which is the collection *)
(* path followed by '/' and the id.                                       *)
C15_DefaultSelector ==
    (PathCalled /\ which = NoneV) =>
        IF entity.id = NoneVal
        THEN path_result = CollectionPath
        ELSE /\ path_result = path(server_url, entity, "this")
             /\ path_result.raised = ""
             /\ path_result.url =
                    CollectionPath.url \o <<"/", str(entity.id.n)>>

C15_Witness ==
    /\ PathCalled
    /\ which = NoneV
    /\ entity.id = IntVal(0)
    /\ entity.api_path[1] = "/"
    /\ path_result.url =
           server_url \o <<"/", "api", "/", "v2", "/", "domains", "/", "0">>

(* C16: path raises NoSuchPathError and returns no path for 'this' with   *)
(* id unset and for every selector other than None, 'all' and 'this',     *)
(* whatever id is; path('all') never raises.                              *)
C16_NoSuchPath ==
    PathCalled =>
        /\ (which = "this" /\ entity.id = NoneVal) =>
               path_result = Raise("NoSuchPathError")
        /\ which \notin {NoneV, "all", "this"} =>
               path_result = Raise("NoSuchPathError")
        /\ which = "all" =>
               path_result.raised = "" /\ path_result.url # <<>>

C16_Witness ==
    /\ PathCalled
    /\ which = "self"
    /\ entity.id # NoneVal
    /\ path_result.raised = "NoSuchPathError"
    /\ path_result.url = <<>>

(* the class the one-to-many field points to *)
TargetClass == rel_field.target.name

IsTargetInstance(obj) == obj.kind = "instance" /\ obj.cls = TargetClass

(* the three shapes of C17: a target instance, a dict, a list of target   *)
(* instances and dicts                                                    *)
C17_Shape ==
    \/ IsTargetInstance(rel_value)
    \/ rel_value.kind = "dict"
    \/ /\ rel_value.kind = "list"
       /\ \A i \in DOMAIN rel_value.items :
              \/ IsTargetInstance(rel_value.items[i])
              \/ rel_value.items[i].kind = "dict"

(* C17, as stated: after the assignment of any of the three shapes the    *)
(* field holds a list whose elements are all instances of the target;     *)
(* a dict gives the one-element list of the instance built from it.       *)
C17_NormalizedToInstances ==
    (rel_value # Unset /\ C17_Shape) =>
        /\ rel_err = ""
        /\ rel_held.kind = "list"
        /\ \A i \in DOMAIN rel_held.items :
               IsTargetInstance(rel_held.items[i])
        /\ rel_value.kind = "dict" =>
               rel_held = List(<<Inst(TargetClass, rel_value.attrs)>>)

(* C18, as stated: with a target declared by name, get_value() returns an *)
(* object of the class of that name and an assignment succeeds.           *)
C18_ByNameResolvedOnUse ==
    rel_field.target.by_name =>
        /\ rel_synth # NotCalled => rel_synth = Val("list", 1, TargetClass)
        /\ rel_value # Unset => (rel_err = "" /\ rel_held # Unset)

(* the instance without the assignment of the field *)
NeverAssigned(f) == [k \in DOMAIN ent_data \ {f} |-> ent_data[k]]

(* the fields that were explicitly set to None *)
SetToNone == {f \in DOMAIN ent_data : ent_data[f] = NoneVal}

(* no key of the result maps to None, and every field whose value is not  *)
(* None is in the result with that value                                  *)
C19_ExactlyNotNone ==
    /\ \A k \in DOMAIN values : values[k] # NoneVal
    /\ \A f \in EntityFields :
           FieldValue(ent_defaults, ent_data, f) # NoneVal =>
               f \in DOMAIN values /\ values[f] = FieldValue(ent_defaults, ent_data, f)
    /\ DOMAIN values \subseteq EntityFields

RelationshipPairs ==
    {<<e, f>> \in (DOMAIN entities_) \X {"pets", "spouse", "owner", "id"} :
        /\ f \in DOMAIN entities_[e].fields
        /\ IsRelationship(entities_[e].fields[f])}

(* the positions of the edge lines of the output *)
EdgesAt == {i \in DOMAIN printed : printed[i].stmt = "edge"}

(* the edge lines printed for the pair *)
EdgesOf(e, f) ==
    {i \in EdgesAt : printed[i].tail = e /\ printed[i].label = f}

(* the edge says what the field declares *)
DescribesField(line) ==
    LET fld == entities_[line.tail].fields[line.label]
    IN  /\ line.head = (IF fld.target.by_name
                        THEN fld.target.name
                        ELSE "<class 'robottelo.entities." \o
                             fld.target.name \o "'>")
        /\ line.attrs = " color=red" <=>
               ("required" \in DOMAIN fld.options /\ fld.options["required"])
        /\ line.attrs \in {"", " color=red"}

(* the steps the run has still to take: an upper bound that every step    *)
(* lowers                                                                 *)
RECURSIVE FieldsLeft(_)
FieldsLeft(es) ==
    IF es = {} THEN 0
    ELSE LET e == CHOOSE x \in es : TRUE
         IN  2 + Cardinality(DOMAIN entities_[e].fields) +
             FieldsLeft(es \ {e})

StepsLeft ==
    CASE graph_pc = "start" -> 2 + FieldsLeft(DOMAIN entities_)
      [] graph_pc = "entities" ->
             1 + FieldsLeft(DOMAIN entities_ \ entities_seen)
      [] graph_pc = "fields" ->
             1 + FieldsLeft(DOMAIN entities_ \ entities_seen)
               - (1 + Cardinality(fields_seen))
      [] OTHER -> 0

NodesAt == {i \in DOMAIN printed : printed[i].stmt = "node"}

(* the node lines printed for the entity *)
NodesOf(e) == {i \in NodesAt : printed[i].tail = e}

(* the entity is a node of the graph: its name is the subject of a node   *)
(* line or an endpoint of an edge line                                    *)
Appears(e) ==
    \/ NodesOf(e) # {}
    \/ \E i \in EdgesAt : printed[i].tail = e \/ printed[i].head = e

(* some relationship field of some entity names the entity as its target *)
TargetedByName(e) ==
    \E p \in RelationshipPairs :
        LET fld == entities_[p[1]].fields[p[2]]
        IN  fld.target.by_name /\ fld.target.name = e

HasRelationship(e) == \E p \in RelationshipPairs : p[1] = e

(* C21 as stated: in the complete output every declared entity is a node  *)
(* of the graph, by a node line or as an endpoint of an edge, and it has  *)
(* the dotted marker if and only if it is not a Factory subclass.         *)
C21_EveryEntityIsANode ==
    graph_pc = "done" =>
        \A e \in DOMAIN entities_ :
            /\ Appears(e)
            /\ (\E i \in NodesOf(e) : printed[i].attrs = " style=dotted")
                   <=> ~entities_[e].factory

(* C21 amended: a node line is only ever printed for an entity that is    *)
(* not a Factory subclass and it always carries the dotted marker; in the *)
(* complete output an entity has the dotted node line, exactly once, if   *)
(* and only if it is not a Factory subclass, and it is a node of the      *)
(* graph if and only if it is not a Factory subclass, or declares a       *)
(* relationship field, or is named as the target of one.                  *)
C21_DottedIffNotFactory ==
    /\ \A i \in NodesAt :
          /\ printed[i].tail \in DOMAIN entities_
          /\ ~entities_[printed[i].tail].factory
          /\ printed[i].attrs = " style=dotted"
    /\ graph_pc = "done" =>
          \A e \in DOMAIN entities_ :
              /\ Cardinality(NodesOf(e)) =
                     (IF entities_[e].factory THEN 0 ELSE 1)
              /\ Appears(e) <=> \/ ~entities_[e].factory
                                \/ HasRelationship(e)
                                \/ TargetedByName(e)

(* a complete output where one entity is dotted and the other, a Factory  *)
(* subclass whose only field is id and which is the target of a field     *)
(* declared with the class, is not in the output at all                   *)
C21_Witness ==
    /\ graph_pc = "done"
    /\ ~entities_["PetEntity"].factory
    /\ NodesOf("PetEntity") # {}
    /\ entities_["OwnerEntity"].factory
    /\ DOMAIN entities_["OwnerEntity"].fields = {"id"}
    /\ "owner" \in DOMAIN entities_["PetEntity"].fields
    /\ entities_["PetEntity"].fields["owner"].target =
           [name |-> "OwnerEntity", by_name |-> FALSE]
    /\ ~Appears("OwnerEntity")

(* ===== the order of the steps of create_object ===== *)

(* the delays taken so far *)
SleepCalls == SelectSeq(log, LAMBDA c : c.op = "sleep_for_seconds")

(* the positions of the calls of an operation in the log *)
CallsAt(op) == {i \in DOMAIN log : log[i].op = op}

(* create_object was left, by return or by its CLIFactoryError *)
LeftCreateObject ==
    \/ pc \in {"created", "done"}
    \/ pc = "raised" /\ HasCreate

(* C24: create_object makes one backend create call, then takes exactly   *)
(* one delay of 5 seconds, then checks the return code, then normalizes   *)
(* the output: at no time is there more than one create call or more than *)
(* one delay, the delay is logged after the create call, and while the    *)
(* call was submitted and the delay was not taken no result was returned  *)
(* and no error raised; the check and the normalization are only done     *)
(* from the state after the delay, and the result returned is the         *)
(* normalized output of a call that returned code 0.                      *)
C24_CreateThenDelayThenCheck ==
    /\ [](/\ Len(CreateCalls) <= 1
          /\ Len(SleepCalls) <= 1
          /\ \A i \in CallsAt("sleep_for_seconds") :
                /\ log[i].obj = "5"
                /\ \E j \in CallsAt("create") : j < i
          /\ (HasCreate /\ SleepCalls = <<>>) =>
                /\ pc = "submitted"
                /\ new_obj = PyNone
                /\ err = NoException
          /\ LeftCreateObject =>
                /\ Len(CreateCalls) = 1
                /\ Len(SleepCalls) = 1
          /\ pc \in {"created", "done"} =>
                /\ result.return_code = 0
                /\ new_obj = Normalize(result.stdout))
    /\ [][/\ pc = "submitted" =>
                pc' = "slept" /\ new_obj' = new_obj /\ err' = err
          /\ pc' = "created" => pc = "slept"
          /\ (HasCreate /\ pc' = "raised") => pc \in {"slept", "created"}
          /\ new_obj' # new_obj => pc = "slept"]_vars

(* both ways out of create_object, each after the one delay: a returned   *)
(* result that was unwrapped from a list                                  *)
C24_Witness ==
    /\ pc = "done"
    /\ Len(log) >= 2
    /\ log[Len(log)].op = "sleep_for_seconds"
    /\ log[Len(log) - 1].op = "create"
    /\ result.stdout.t = "list"
    /\ new_obj.t = "dict"

(* ===== the required options of make_host ===== *)

(* the seven options make_host requires *)
C25_Required ==
    <<"architecture-id", "domain-id", "environment-id", "medium-id",
      "operatingsystem-id", "partition-table-id", "puppet-proxy-id">>

(* those of the seven that the options do not hold or hold as None *)
C25_Missing(o) ==
    IF o.none THEN C25_Required
    ELSE SelectSeq(C25_Required,
                   LAMBDA k : k \notin DOMAIN o.d \/ o.d[k] = NoneV)

(* C25: make_host called with options that lack some of its seven         *)
(* required options, or hold None for them, makes no call at all and      *)
(* raises CLIFactoryError with the message that lists exactly those       *)
(* options (all seven when options is None); called with options that     *)
(* hold a value other than None for all seven it raises nothing before    *)
(* the backend create call, and every step up to that call has a          *)
(* successor.                                                             *)
C25_MissingOptionsListed ==
    fn = "make_host" =>
        IF C25_Missing(options0) # <<>>
        THEN /\ pc \in {"call", "raised"}
             /\ log = <<>>
             /\ pc = "raised" =>
                   /\ err.type = "CLIFactoryError"
                   /\ err.msg = "Options " \o
                                Join(", ", C25_Missing(options0)) \o
                                " are required"
        ELSE /\ pc = "raised" => HasCreate
             /\ ~HasCreate => ENABLED Next

(* two of the seven are given, one of them as the empty string; one is    *)
(* None and four are absent: the five are listed                          *)
C25_Witness ==
    /\ fn = "make_host"
    /\ options0 = Dict(("architecture-id" :> "u1") @@ ("domain-id" :> NoneV)
                       @@ ("medium-id" :> ""))
    /\ pc = "raised"
    /\ err.msg = "Options domain-id, environment-id, operatingsystem-id, "
                 \o "partition-table-id, puppet-proxy-id are required"

(* ===== the caller's options after the call ===== *)

(* C28: at every step of a factory call, and so when it has returned or   *)
(* raised, the mapping the caller passed as options holds the keys and    *)
(* values it held when the call was made.                                 *)
C28_OptionsUnchanged ==
    ~options0.none => options.d = options0.d

(* ===== the remote path of the file-backed factories ===== *)

(* the uploads made so far *)
UploadCalls == SelectSeq(log, LAMBDA c : c.op = "upload_file")

(* the attribute that names the file: 'key' of make_gpg_key, 'file' of    *)
(* make_partition_table and make_template                                 *)
C29_Attribute == IF fn = "make_gpg_key" THEN "key" ELSE "file"

(* the upload was made, and made first *)
C29_UploadFirst ==
    /\ Len(UploadCalls) = 1
    /\ log[1].op = "upload_file"
    /\ \A i \in CallsAt("create") : i > 1

(* the options still hold the file attribute when they are laid over the  *)
(* defaults: the caller supplied it and the factory did not take it out   *)
C29_StillSupplied ==
    /\ C29_Attribute \in Supplied
    /\ ~(fn = "make_gpg_key" /\ Truthy(options0.d["key"]))

ContextAt(what) ==
    {i \in CallsAt("default_url_on_new_port") : log[i].obj = what}

(* the caller's options hold the key 'url' *)
C30_UrlKey == ~options0.none /\ "url" \in Supplied

(* the factory was left, by return or by exception *)
C30_Left == pc \in {"done", "raised"}

(* C30: make_proxy called with options that hold no 'url' key makes the   *)
(* backend create call inside the default_url_on_new_port context: the    *)
(* context is entered once, before the create call, it is open at every   *)
(* step of create_object and of the merge of its result, it is left       *)
(* once, after the create call, when the factory returns or raises, and   *)
(* the url submitted is the one the context yielded.  Called with options *)
(* that hold 'url', of whatever value, it never enters the context and    *)
(* submits the caller's url.                                              *)
C30_CreateInsideContext ==
    fn = "make_proxy" =>
        IF C30_UrlKey
        THEN /\ CallsAt("default_url_on_new_port") = {}
             /\ ~in_ctx
             /\ HasCreate => SubmittedArgs["url"] = options0.d["url"]
        ELSE /\ Cardinality(ContextAt("enter")) <= 1
             /\ Cardinality(ContextAt("exit")) <= 1
             /\ in_ctx <=> (ContextAt("enter") # {} /\ ContextAt("exit") = {})
             /\ HasCreate =>
                   /\ \E i \in ContextAt("enter") :
                         \A j \in CallsAt("create") : i < j
                   /\ \A i \in ContextAt("exit") :
                         \A j \in CallsAt("create") : j < i
                   /\ SubmittedArgs["url"] = NewPortUrl
                   /\ in_ctx <=> ~C30_Left
             /\ C30_Left => ContextAt("enter") # {}

(* a call without 'url' whose create call failed: the context was entered *)
(* before it and left by the exception                                    *)
C30_Witness ==
    /\ fn = "make_proxy"
    /\ options0 = Dict(("name" :> "u1"))
    /\ pc = "raised"
    /\ Len(log) = 4
    /\ log[1].obj = "enter"
    /\ log[2].op = "create"
    /\ log[2].a["url"] = NewPortUrl
    /\ log[3].op = "sleep_for_seconds"
    /\ log[4].obj = "exit"

(* ===== properties of the UI factories ===== *)

(* the calls of the page object's create(), update() in edit_param *)
UiCreateCalls ==
    SelectSeq(ui_log, LAMBDA c : c.op = UiMethod(ui_fn) /\ c.obj # "nav")

(* the positions of the calls of an operation on session.nav *)
UiCallsAt(op) == {i \in DOMAIN ui_log : ui_log[i].op = op}

(* C26: core_factory has returned and the page object's create() was      *)
(* called: the keyword arguments it was called with are the keys the      *)
(* factory declares and the keys the caller overrides, each override with *)
(* the caller's value and every other key with the declared default.      *)
C26_OverridesReachCreate ==
    UiCreateCalls # <<>> =>
        LET passed == UiCreateCalls[1].a
            declared == UiCreateArgs(ui_fn)
        IN  /\ Len(UiCreateCalls) = 1
            /\ DOMAIN passed = DOMAIN declared \cup DOMAIN kwargs
            /\ \A k \in DOMAIN kwargs : passed[k] = kwargs[k]
            /\ \A k \in DOMAIN declared \ DOMAIN kwargs :
                  passed[k] = declared[k]

(* make_hostgroup(session, name='u1', environment=None, extra='u1'):      *)
(* create() gets the name, the override of None, the key the factory does *)
(* not declare and the default of parent                                  *)
C26_Witness ==
    /\ ui_fn = "make_hostgroup"
    /\ kwargs = ("name" :> "u1") @@ ("environment" :> NoneV)
                @@ ("extra" :> "u1")
    /\ ui_pc = "returned"
    /\ UiCreateCalls[1].obj = "Hostgroup"
    /\ UiCreateCalls[1].a =
           ("name" :> "u1") @@ ("environment" :> NoneV) @@ ("extra" :> "u1")
           @@ ("parent" :> NoneV)

(* the positions of the calls that select the context *)
SelectsAt == UiCallsAt("go_to_select_org") \cup UiCallsAt("go_to_select_loc")

(* the position of the navigation to the entity page, and of create() *)
PagesAt == UiCallsAt(UiNav(ui_fn))

UiCreatesAt ==
    {i \in DOMAIN ui_log :
        ui_log[i].op = UiMethod(ui_fn) /\ ui_log[i].obj = UiPage(ui_fn)}

(* an org or a loc was given, and the text of the current context has no  *)
(* '@' or core_factory was called with force_context                      *)
C27_ContextDue ==
    /\ org \notin {NoneV, ""} \/ loc \notin {NoneV, ""}
    /\ \/ \A i \in DOMAIN current_text : current_text[i] # "@"
       \/ PassedForce(ui_fn, force_context)

(* C27: the context is selected only when it is due, and then the         *)
(* organization, when given, with the caller's org and the location, when *)
(* given, with the caller's loc, the organization first; core_factory     *)
(* navigates to the entity page once, after every selection, and the page *)
(* object's create() is called only after that navigation.                *)
C27_ContextThenPageThenCreate ==
    /\ SelectsAt # {} => C27_ContextDue
    /\ \A i \in UiCallsAt("go_to_select_org") :
          /\ ui_log[i].a = ("org" :> org)
          /\ \A j \in UiCallsAt("go_to_select_loc") : i < j
    /\ \A j \in UiCallsAt("go_to_select_loc") : ui_log[j].a = ("loc" :> loc)
    /\ Cardinality(UiCallsAt("go_to_select_org")) <= 1
    /\ Cardinality(UiCallsAt("go_to_select_loc")) <= 1
    /\ Cardinality(PagesAt) <= 1
    /\ \A p \in PagesAt : \A i \in SelectsAt : i < p
    /\ \A c \in UiCreatesAt : \E p \in PagesAt : p < c
    /\ ui_pc \in {"create", "returned", "raised"} =>
          /\ Cardinality(PagesAt) = 1
          /\ C27_ContextDue =>
                /\ org \notin {NoneV, ""} => UiCallsAt("go_to_select_org") # {}
                /\ loc \notin {NoneV, ""} => UiCallsAt("go_to_select_loc") # {}
    /\ ui_pc \in {"returned", "raised"} => Cardinality(UiCreatesAt) = 1

(* make_product with org and loc while the current context already has an *)
(* '@', forced: organization, location, page, create                      *)
C27_Witness ==
    /\ ui_fn = "make_product"
    /\ force_context
    /\ current_text = <<"a", "@">>
    /\ ui_pc = "returned"
    /\ Len(ui_log) = 5
    /\ ui_log[2] = Call("go_to_select_org", "nav", ("org" :> "u1"))
    /\ ui_log[3] = Call("go_to_select_loc", "nav", ("loc" :> "u1"))
    /\ ui_log[4].op = "go_to_products"
    /\ ui_log[5].obj = "Products"

(* ===== what a factory returns, CLI and UI ===== *)

(* the CLI factory returned: its value is the dictionary args, the        *)
(* attributes submitted with the mapping of the created object laid over  *)
C23_CliReturnsMapping ==
    pc = "done" =>
        /\ HasCreate
        /\ new_obj.t = "dict" => args = new_obj.d @@ SubmittedArgs
        /\ \A k \in DOMAIN SubmittedArgs : k \in DOMAIN args

(* C23 as stated: a factory of either backend that returned has returned  *)
(* a mapping with the attributes of the object it created.                *)
C23_EveryFactoryReturnsMapping ==
    /\ C23_CliReturnsMapping
    /\ ui_pc = "returned" =>
          /\ ui_ret.t = "dict"
          /\ \A k \in DOMAIN create_args : k \in DOMAIN ui_ret.d

(* C23 amended: a CLI factory that returned has returned its dictionary   *)
(* args, the submitted attributes with the normalized result of the       *)
(* backend laid over; a UI factory that returned has called the page      *)
(* object's create() once and has returned None, and before it returns    *)
(* or raises it has returned nothing.                                     *)
C23_CliReturnsMappingUiReturnsNone ==
    /\ C23_CliReturnsMapping
    /\ ui_pc = "returned" =>
          /\ ui_ret = PyNone
          /\ Len(UiCreateCalls) = 1
    /\ ui_pc \notin {"returned", "idle"} => ui_ret = NotReturned

(* a UI factory that has created its object and returned None *)
C23_Witness ==
    /\ ui_fn = "make_org"
    /\ ui_pc = "returned"
    /\ ui_ret = PyNone
    /\ UiCreateCalls[1].obj = "Org"
    /\ UiCreateCalls[1].a["org_name"] = "u1"

(* ===== factory calls made in parallel ===== *)

(* call i has made its create call *)
Submitted(i) ==
    par_call[i].pc \in {"submitted", "slept", "created", "done"}
    \/ (par_call[i].pc = "raised" /\ par_call[i].result # NoResult)

(* what call i submits when it runs alone: its own defaults, its own      *)
(* generated path or yielded url, its own options                         *)
AloneSubmitted(i) ==
    LET c == par_call[i]
    IN  IF c.fn = "make_template"
        THEN LET o == IF c.options0.none THEN c.options0
                      ELSE [c.options0 EXCEPT !.d = Pop(@, "content")]
                 own == SetItem(make_template_args, "file", c.remote)
             IN  IF o.none \/ DOMAIN o.d = {} THEN own ELSE o.d @@ own
        ELSE LET o == c.options0
                 own == IF o.none THEN make_proxy_args
                        ELSE o.d @@ make_proxy_args
             IN  IF ~o.none /\ "url" \in DOMAIN o.d THEN own
                 ELSE SetItem(own, "url", NewPortUrlOf(c.port))

(* what the two calls keep in their locals is their own: the attributes   *)
(* submitted and the mapping returned are those of the call run alone     *)
LocalsIndependent ==
    \A i \in Callers :
        LET c == par_call[i]
        IN  /\ Submitted(i) => c.submitted = AloneSubmitted(i)
            /\ c.pc = "done" =>
                  /\ c.result.return_code = 0
                  /\ c.args = Normalize(c.result.stdout).d @@ c.submitted

(* the file a call uploaded is, until the backend has read it for the     *)
(* call, the file the call wrote                                          *)
RemoteFileKept ==
    \A i \in Callers :
        LET c == par_call[i]
        IN  c.fn = "make_template" =>
                /\ c.pc \in {"overlay", "ready"} =>
                      remote_files[c.remote] = c.content
                /\ Submitted(i) => c.read = c.content

(* no two open contexts forward the same port *)
PortsDisjoint ==
    \A s, t \in tunnels : s[2] = t[2] => s[1] = t[1]

(* C22: under every interleaving of the steps of the calls made in        *)
(* parallel, each call submits and returns what it submits and returns    *)
(* when run alone, and the remote file of a call is not overwritten by    *)
(* another call before the backend has read it.                           *)
C22_ParallelCallsIndependent ==
    /\ LocalsIndependent
    /\ RemoteFileKept

====
